---- MODULE Spec2Model ----
(***************************************************************************)
(* ChiaCheck bill splitting: the calculation engine (CalculationEngine in  *)
(* src/unnamed/part_000).                                                   *)
(*                                                                         *)
(* Numbers.  JavaScript numbers are modelled as exact rationals; binary    *)
(* floating point error is not modelled.  A value that has been through    *)
(* roundNumber is a whole multiple of 10^-precision and is held as that     *)
(* whole number ("cents" below, for precision = 2).  Values inside the      *)
(* expression evaluator are records [k, n, d, s]: k = "num" is the rational *)
(* n/d (s the sign, also of a zero), "nan", "inf" (sign s), "obj" a value   *)
(* whose typeof is not 'number' (a RegExp object or a string), and          *)
(* "unsupported" a finite number this model cannot hold (irrational or      *)
(* larger than MaxMagnitude); no enumerated input evaluates to it.          *)
(*                                                                         *)
(* Text is a sequence of one-character strings.                            *)
(***************************************************************************)
EXTENDS Integers, Sequences, FiniteSets, TLC

\* ------------------------------------------------------------------------
\* Bounds of the model
\* ------------------------------------------------------------------------
MaxMagnitude == 5000000

\* ------------------------------------------------------------------------
\* CalculationEngine.constructor
\* ------------------------------------------------------------------------
precision == 2
roundingMethod == "round"

\* ------------------------------------------------------------------------
\* Arithmetic helpers
\* ------------------------------------------------------------------------
Abs(x) == IF x < 0 THEN -x ELSE x

RECURSIVE GCD(_, _)
GCD(a, b) == IF b = 0 THEN a ELSE GCD(b, a % b)

\* x * y stays inside the range the model can hold
OkMul(x, y) == y = 0 \/ Abs(x) <= MaxMagnitude \div Abs(y)

\* Math.round, Math.floor, Math.ceil of the rational n/d (d > 0).
\* Math.round rounds a tie towards +Infinity.
MathRound(n, d) == (2 * n + d) \div (2 * d)
MathFloor(n, d) == n \div d
MathCeil(n, d) == -((-n) \div d)

\* ------------------------------------------------------------------------
\* JavaScript number values and operators (the language semantics that
\* new Function('return (' + expression + ')') runs under)
\* ------------------------------------------------------------------------
NaN == [k |-> "nan", n |-> 0, d |-> 1, s |-> 1]
Infinity(sign) == [k |-> "inf", n |-> 0, d |-> 1, s |-> sign]
NotANumberType == [k |-> "obj", n |-> 0, d |-> 1, s |-> 1]
Unsupported == [k |-> "unsupported", n |-> 0, d |-> 1, s |-> 1]

\* the number n/d (d > 0) in lowest terms; zsign is the sign of a zero
Num(n, d, zsign) ==
    LET g == GCD(Abs(n), d) IN
    IF Abs(n) \div g > MaxMagnitude \/ d \div g > MaxMagnitude THEN Unsupported
    ELSE [k |-> "num", n |-> n \div g, d |-> d \div g,
          s |-> IF n > 0 THEN 1 ELSE IF n < 0 THEN -1 ELSE zsign]

IsZero(v) == v.k = "num" /\ v.n = 0

\* ToNumber: a RegExp object or a string made from one is NaN
ToNumber(v) == IF v.k = "obj" THEN NaN ELSE v

JsNeg(a) ==
    LET v == ToNumber(a) IN
    IF v.k = "num" THEN [v EXCEPT !.n = -v.n, !.s = -v.s]
    ELSE IF v.k = "inf" THEN Infinity(-v.s)
    ELSE v

\* a + b of two rationals, over the least common denominator; g is the
\* greatest common divisor of the denominators
AddOver(a, b, g) ==
    IF ~OkMul(a.n, b.d \div g) \/ ~OkMul(b.n, a.d \div g) \/ ~OkMul(a.d, b.d \div g)
    THEN Unsupported
    ELSE Num(a.n * (b.d \div g) + b.n * (a.d \div g), a.d * (b.d \div g),
             IF IsZero(a) /\ IsZero(b) /\ a.s = -1 /\ b.s = -1 THEN -1 ELSE 1)

\* binary + : string concatenation as soon as one operand is not a number
JsAdd(a, b) ==
    IF a.k = "unsupported" \/ b.k = "unsupported" THEN Unsupported
    ELSE IF a.k = "obj" \/ b.k = "obj" THEN NotANumberType
    ELSE IF a.k = "nan" \/ b.k = "nan" THEN NaN
    ELSE IF a.k = "inf" /\ b.k = "inf" THEN (IF a.s = b.s THEN a ELSE NaN)
    ELSE IF a.k = "inf" THEN a
    ELSE IF b.k = "inf" THEN b
    ELSE AddOver(a, b, GCD(a.d, b.d))

JsSub(a, b) ==
    IF a.k = "unsupported" \/ b.k = "unsupported" THEN Unsupported
    ELSE JsAdd(ToNumber(a), JsNeg(b))

JsMul(x, y) ==
    LET a == ToNumber(x)
        b == ToNumber(y) IN
    IF a.k = "unsupported" \/ b.k = "unsupported" THEN Unsupported
    ELSE IF a.k = "nan" \/ b.k = "nan" THEN NaN
    ELSE IF a.k = "inf" \/ b.k = "inf"
         THEN (IF IsZero(a) \/ IsZero(b) THEN NaN ELSE Infinity(a.s * b.s))
    ELSE IF ~OkMul(a.n, b.n) \/ ~OkMul(a.d, b.d) THEN Unsupported
    ELSE Num(a.n * b.n, a.d * b.d, a.s * b.s)

JsDiv(x, y) ==
    LET a == ToNumber(x)
        b == ToNumber(y) IN
    IF a.k = "unsupported" \/ b.k = "unsupported" THEN Unsupported
    ELSE IF a.k = "nan" \/ b.k = "nan" THEN NaN
    ELSE IF a.k = "inf" THEN (IF b.k = "inf" THEN NaN ELSE Infinity(a.s * b.s))
    ELSE IF b.k = "inf" THEN Num(0, 1, a.s * b.s)
    ELSE IF IsZero(b) THEN (IF IsZero(a) THEN NaN ELSE Infinity(a.s * b.s))
    ELSE IF ~OkMul(a.n, b.d) \/ ~OkMul(a.d, b.n) THEN Unsupported
    ELSE Num(a.s * b.s * Abs(a.n * b.d), Abs(a.d * b.n), a.s * b.s)

\* b^e for a whole e >= 0, by repeated multiplication
RECURSIVE IntPow(_, _)
IntPow(b, e) ==
    IF e = 0 THEN Num(1, 1, 1)
    ELSE LET r == IntPow(b, e - 1) IN
         IF r.k = "unsupported" THEN Unsupported ELSE JsMul(r, b)

IsOddInteger(v) == v.k = "num" /\ v.d = 1 /\ v.n % 2 = 1

\* Number::exponentiate
JsPow(x, y) ==
    LET b == ToNumber(x)
        e == ToNumber(y)
        sign == IF b.s = -1 /\ IsOddInteger(e) THEN -1 ELSE 1 IN
    IF b.k = "unsupported" \/ e.k = "unsupported" THEN Unsupported
    ELSE IF e.k = "nan" THEN NaN
    ELSE IF IsZero(e) THEN Num(1, 1, 1)
    ELSE IF b.k = "nan" THEN NaN
    ELSE IF e.k = "inf" THEN
        (IF b.k = "inf" \/ Abs(b.n) > b.d
         THEN (IF e.s = 1 THEN Infinity(1) ELSE Num(0, 1, 1))
         ELSE IF Abs(b.n) = b.d THEN NaN
         ELSE (IF e.s = 1 THEN Num(0, 1, 1) ELSE Infinity(1)))
    ELSE IF b.k = "inf" THEN (IF e.s = 1 THEN Infinity(sign) ELSE Num(0, 1, sign))
    ELSE IF IsZero(b) THEN (IF e.s = 1 THEN Num(0, 1, sign) ELSE Infinity(sign))
    ELSE IF e.d # 1 THEN
        (IF b.n < 0 THEN NaN
         ELSE IF b.n = b.d THEN Num(1, 1, 1)
         ELSE Unsupported)
    ELSE IF Abs(e.n) > 31 THEN
        (IF Abs(b.n) = b.d
         THEN Num(IF b.n < 0 /\ e.n % 2 = 1 THEN -1 ELSE 1, 1, 1)
         ELSE Unsupported)
    ELSE IF e.n > 0 THEN IntPow(b, e.n)
    ELSE JsDiv(Num(1, 1, 1), IntPow(b, -e.n))

\* ------------------------------------------------------------------------
\* JavaScript source text: tokens
\* ------------------------------------------------------------------------
Digits == {"0", "1", "2", "3", "4", "5", "6", "7", "8", "9"}
OctalDigits == {"0", "1", "2", "3", "4", "5", "6", "7"}

DigitValue(c) ==
    IF c = "0" THEN 0 ELSE IF c = "1" THEN 1 ELSE IF c = "2" THEN 2
    ELSE IF c = "3" THEN 3 ELSE IF c = "4" THEN 4 ELSE IF c = "5" THEN 5
    ELSE IF c = "6" THEN 6 ELSE IF c = "7" THEN 7 ELSE IF c = "8" THEN 8
    ELSE 9

CharAt(s, i) == IF i >= 1 /\ i <= Len(s) THEN s[i] ELSE ""

\* the position after the longest run of digits that starts at i
RECURSIVE DigitsEnd(_, _)
DigitsEnd(s, i) == IF CharAt(s, i) \in Digits THEN DigitsEnd(s, i + 1) ELSE i

\* the value of the digits s[from .. to-1] in the given base, -1 when the
\* model cannot hold it
RECURSIVE DigitsValue(_, _, _, _, _)
DigitsValue(s, from, to, base, acc) ==
    IF from >= to THEN acc
    ELSE IF acc > MaxMagnitude \div base THEN -1
    ELSE DigitsValue(s, from + 1, to, base, acc * base + DigitValue(s[from]))

RECURSIVE PowerOfTen(_)
PowerOfTen(e) == IF e = 0 THEN 1 ELSE 10 * PowerOfTen(e - 1)

\* NumericLiteral starting at i (s[i] is a digit, or "." before a digit):
\* DecimalLiteral, LegacyOctalIntegerLiteral ("012" is 10) and
\* NonOctalDecimalIntegerLiteral ("089" is 89) of sloppy-mode code.
\* [v |-> the value, end |-> the position after the literal]
NumericLiteral(s, i) ==
    LET intEnd == DigitsEnd(s, i)
        legacy == intEnd - i > 1 /\ s[i] = "0"
        octal == legacy /\ \A j \in i..(intEnd - 1) : s[j] \in OctalDigits
    IN
    IF octal
    THEN LET o == DigitsValue(s, i, intEnd, 8, 0) IN
         [v |-> IF o < 0 THEN Unsupported ELSE Num(o, 1, 1), end |-> intEnd]
    ELSE LET fracStart == IF CharAt(s, intEnd) = "." THEN intEnd + 1 ELSE intEnd
             fracEnd == DigitsEnd(s, fracStart)
             fracLen == fracEnd - fracStart
             ip == DigitsValue(s, i, intEnd, 10, 0)
             all == DigitsValue(s, fracStart, fracEnd, 10, ip)
         IN
         [v |-> IF ip < 0 \/ all < 0 \/ fracLen > 6 THEN Unsupported
                ELSE Num(all, PowerOfTen(fracLen), 1),
          end |-> fracEnd]

\* the position after the "*/" that closes a comment whose body starts at i,
\* 0 when the comment is not closed
RECURSIVE CommentEnd(_, _)
CommentEnd(s, i) ==
    IF i + 1 > Len(s) THEN 0
    ELSE IF s[i] = "*" /\ s[i + 1] = "/" THEN i + 2
    ELSE CommentEnd(s, i + 1)

\* the position of the "/" that closes a regular expression literal whose
\* body starts at i, 0 when there is none
RECURSIVE RegExpBodyEnd(_, _)
RegExpBodyEnd(s, i) ==
    IF i > Len(s) THEN 0
    ELSE IF s[i] = "/" THEN i
    ELSE RegExpBodyEnd(s, i + 1)

\* s[i .. to-1] is a pattern: groups are balanced and every quantifier
\* (+ or *) follows an atom
RECURSIVE RegExpPatternOk(_, _, _, _, _)
RegExpPatternOk(s, i, to, depth, atom) ==
    IF i >= to THEN depth = 0
    ELSE IF s[i] = "(" THEN RegExpPatternOk(s, i + 1, to, depth + 1, FALSE)
    ELSE IF s[i] = ")" THEN depth > 0 /\ RegExpPatternOk(s, i + 1, to, depth - 1, TRUE)
    ELSE IF s[i] \in {"+", "*"} THEN atom /\ RegExpPatternOk(s, i + 1, to, depth, FALSE)
    ELSE RegExpPatternOk(s, i + 1, to, depth, TRUE)

Tok(type) == [t |-> type, v |-> NaN]
LexError == [ok |-> FALSE, toks |-> <<>>]

\* The tokens of the source text s from position i on.  afterOperand: the
\* previous token ends an operand, so that a "/" divides; otherwise a "/"
\* starts a regular expression literal.  Comments are skipped; "//" runs to
\* the end of the text.  A "." that starts no number is a member access with
\* no name after it.
RECURSIVE Tokenize(_, _, _, _)
Tokenize(s, i, afterOperand, acc) ==
    IF i > Len(s) THEN [ok |-> TRUE, toks |-> acc]
    ELSE
    LET c == s[i]
        next == CharAt(s, i + 1)
    IN
    IF c \in Digits \/ (c = "." /\ next \in Digits) THEN
        LET lit == NumericLiteral(s, i) IN
        Tokenize(s, lit.end, TRUE, Append(acc, [t |-> "num", v |-> lit.v]))
    ELSE IF c = "/" /\ next = "/" THEN [ok |-> TRUE, toks |-> acc]
    ELSE IF c = "/" /\ next = "*" THEN
        LET e == CommentEnd(s, i + 2) IN
        IF e = 0 THEN LexError ELSE Tokenize(s, e, afterOperand, acc)
    ELSE IF c = "/" /\ ~afterOperand THEN
        LET e == RegExpBodyEnd(s, i + 1) IN
        IF e = 0 \/ ~RegExpPatternOk(s, i + 1, e, 0, FALSE) \/ CharAt(s, e + 1) \in Digits
        THEN LexError
        ELSE Tokenize(s, e + 1, TRUE, Append(acc, [t |-> "regexp", v |-> NotANumberType]))
    ELSE IF c = "/" THEN Tokenize(s, i + 1, FALSE, Append(acc, Tok("/")))
    ELSE IF c = "+" /\ next = "+" THEN Tokenize(s, i + 2, FALSE, Append(acc, Tok("++")))
    ELSE IF c = "-" /\ next = "-" THEN Tokenize(s, i + 2, FALSE, Append(acc, Tok("--")))
    ELSE IF c = "*" /\ next = "*" THEN Tokenize(s, i + 2, FALSE, Append(acc, Tok("**")))
    ELSE IF c \in {"+", "-", "*", "("} THEN Tokenize(s, i + 1, FALSE, Append(acc, Tok(c)))
    ELSE IF c = ")" THEN Tokenize(s, i + 1, TRUE, Append(acc, Tok(")")))
    ELSE LexError

\* ------------------------------------------------------------------------
\* JavaScript source text: expressions.  Every parser takes the tokens and a
\* position and gives [ok, v |-> the value, i |-> the position after it];
\* ok = FALSE stands for a SyntaxError or a TypeError.
\* ------------------------------------------------------------------------
Fail == [ok |-> FALSE, v |-> NaN, i |-> 0]
Parsed(v, i) == [ok |-> TRUE, v |-> v, i |-> i]
TokAt(toks, i) == IF i >= 1 /\ i <= Len(toks) THEN toks[i].t ELSE "end"

RECURSIVE ParseAdditive(_, _)
RECURSIVE AdditiveRest(_, _)
RECURSIVE AddTo(_, _, _, _)
RECURSIVE ParseMultiplicative(_, _)
RECURSIVE MultiplicativeRest(_, _)
RECURSIVE MultiplyBy(_, _, _, _)
RECURSIVE ParseExponentiation(_, _)
RECURSIVE ExponentOf(_, _)
RECURSIVE ParseUnary(_, _)
RECURSIVE ParseUpdate(_, _)
RECURSIVE ParsePrimary(_, _)

\* the ")" that must follow the parenthesized expression r
CloseParenthesis(toks, r) ==
    IF r.ok /\ TokAt(toks, r.i) = ")" THEN Parsed(r.v, r.i + 1) ELSE Fail

\* PrimaryExpression: a literal or a parenthesized expression
ParsePrimary(toks, i) ==
    IF TokAt(toks, i) \in {"num", "regexp"} THEN Parsed(toks[i].v, i + 1)
    ELSE IF TokAt(toks, i) = "(" THEN CloseParenthesis(toks, ParseAdditive(toks, i + 1))
    ELSE Fail

\* a call of a literal or of a parenthesized value is a TypeError, ++ and --
\* need an assignable operand
NotCalledNorUpdated(toks, p) ==
    IF p.ok /\ TokAt(toks, p.i) \in {"(", "++", "--"} THEN Fail ELSE p

\* LeftHandSideExpression and UpdateExpression
ParseUpdate(toks, i) == NotCalledNorUpdated(toks, ParsePrimary(toks, i))

\* the unary operator t applied to the operand r
ApplyUnary(t, r) ==
    IF ~r.ok THEN Fail
    ELSE Parsed(IF t = "-" THEN JsNeg(r.v) ELSE ToNumber(r.v), r.i)

\* UnaryExpression: + and - prefixes
ParseUnary(toks, i) ==
    IF TokAt(toks, i) \in {"+", "-"}
    THEN ApplyUnary(TokAt(toks, i), ParseUnary(toks, i + 1))
    ELSE ParseUpdate(toks, i)

\* a unary operand on the left of ** is a SyntaxError
NotBase(toks, r) == IF r.ok /\ TokAt(toks, r.i) = "**" THEN Fail ELSE r

\* b ** e
RaiseTo(b, e) == IF e.ok THEN Parsed(JsPow(b.v, e.v), e.i) ELSE Fail

\* the UpdateExpression b, raised to what follows a "**" (right associative)
ExponentOf(toks, b) ==
    IF b.ok /\ TokAt(toks, b.i) = "**"
    THEN RaiseTo(b, ParseExponentiation(toks, b.i + 1))
    ELSE b

\* ExponentiationExpression: UnaryExpression, or UpdateExpression ** itself
ParseExponentiation(toks, i) ==
    IF TokAt(toks, i) \in {"+", "-"}
    THEN NotBase(toks, ParseUnary(toks, i))
    ELSE ExponentOf(toks, ParseUpdate(toks, i))

\* left t r, then the rest of the MultiplicativeExpression
MultiplyBy(toks, left, t, r) ==
    IF ~r.ok THEN Fail
    ELSE MultiplicativeRest(toks,
             Parsed(IF t = "*" THEN JsMul(left.v, r.v) ELSE JsDiv(left.v, r.v), r.i))

\* MultiplicativeExpression, left associative
MultiplicativeRest(toks, left) ==
    IF ~left.ok THEN Fail
    ELSE IF TokAt(toks, left.i) \in {"*", "/"}
    THEN MultiplyBy(toks, left, TokAt(toks, left.i), ParseExponentiation(toks, left.i + 1))
    ELSE left

ParseMultiplicative(toks, i) == MultiplicativeRest(toks, ParseExponentiation(toks, i))

\* left t r, then the rest of the AdditiveExpression
AddTo(toks, left, t, r) ==
    IF ~r.ok THEN Fail
    ELSE AdditiveRest(toks,
             Parsed(IF t = "+" THEN JsAdd(left.v, r.v) ELSE JsSub(left.v, r.v), r.i))

\* AdditiveExpression, left associative
AdditiveRest(toks, left) ==
    IF ~left.ok THEN Fail
    ELSE IF TokAt(toks, left.i) \in {"+", "-"}
    THEN AddTo(toks, left, TokAt(toks, left.i), ParseMultiplicative(toks, left.i + 1))
    ELSE left

ParseAdditive(toks, i) == AdditiveRest(toks, ParseMultiplicative(toks, i))

\* new Function('return (' + expression + ')')(): the value of the source
\* text, or threw = TRUE for a SyntaxError or a TypeError
Threw == [threw |-> TRUE, v |-> NaN]
Returned(v) == [threw |-> FALSE, v |-> v]

\* the whole of the tokens must be the expression r
WholeText(toks, r) == IF r.ok /\ r.i = Len(toks) + 1 THEN Returned(r.v) ELSE Threw

RunTokens(lexed) ==
    IF ~lexed.ok THEN Threw ELSE WholeText(lexed.toks, ParseAdditive(lexed.toks, 1))

RunFunction(expression) ==
    RunTokens(Tokenize(<<"(">> \o expression \o <<")">>, 1, FALSE, <<>>))

\* ------------------------------------------------------------------------
\* CalculationEngine: expressions and rounding
\* ------------------------------------------------------------------------

\* evaluateExpression: the value, or threw when the text does not run or its
\* result is not a finite number
FiniteNumber(result) ==
    IF result.threw THEN Threw
    ELSE IF result.v.k \in {"obj", "nan", "inf"} THEN Threw
    ELSE result

evaluateExpression(expression) == FiniteNumber(RunFunction(expression))

\* isValidExpression: allowed characters only and balanced parentheses
ValidChars == Digits \cup {"+", "-", "*", "/", "(", ")", ".", " "}

RECURSIVE ParenthesesBalanced(_, _, _)
ParenthesesBalanced(expression, i, parenthesesCount) ==
    IF i > Len(expression) THEN parenthesesCount = 0
    ELSE LET c == IF expression[i] = "(" THEN parenthesesCount + 1
                  ELSE IF expression[i] = ")" THEN parenthesesCount - 1
                  ELSE parenthesesCount
         IN IF c < 0 THEN FALSE ELSE ParenthesesBalanced(expression, i + 1, c)

isValidExpression(expression) ==
    /\ Len(expression) > 0
    /\ \A i \in 1..Len(expression) : expression[i] \in ValidChars
    /\ ParenthesesBalanced(expression, 1, 0)

\* roundNumber of the rational n/d (d > 0) under a rounding method, as a
\* whole number of units of 10^-p
roundNumberBy(method, n, d, p) ==
    LET g == GCD(10^p, d)
        factor == 10^p \div g     \* factor/scaled = 10^p/d, in lowest terms
        scaled == d \div g
    IN
    IF method = "floor" THEN MathFloor(n * factor, scaled)
    ELSE IF method = "ceil" THEN MathCeil(n * factor, scaled)
    ELSE MathRound(n * factor, scaled)

\* roundNumber(number) with the engine's precision and rounding method: the
\* rounded value in cents
roundNumber(n, d) == roundNumberBy(roundingMethod, n, d, precision)

\* one unit of currency in cents
Factor == 10^precision

\* Values a caller passes where the engine expects expression text
Text(s) == [type |-> "string", s |-> s, n |-> 0, d |-> 1]
Number(n, d) == [type |-> "number", s |-> <<>>, n |-> n, d |-> d]
Null == [type |-> "null", s |-> <<>>, n |-> 0, d |-> 1]

WhiteSpace == {" "}

\* !expression: null, 0 and the empty string are falsy
Falsy(x) ==
    \/ x.type = "null"
    \/ x.type = "number" /\ x.n = 0
    \/ x.type = "string" /\ x.s = <<>>

\* .replace(/[,\s]/g, '').replace(/[^\d+\-*/().]/g, '')
RECURSIVE Clean(_)
Clean(s) ==
    IF s = <<>> THEN <<>>
    ELSE IF Head(s) \in (Digits \cup {"+", "-", "*", "/", "(", ")", "."})
         THEN <<Head(s)>> \o Clean(Tail(s))
         ELSE Clean(Tail(s))

\* the try block of parseExpression: the rounded value in cents, or threw.
\* A number has no trim method: calling it is a TypeError.
Rounded(result) ==
    IF result.threw THEN Threw ELSE Returned(roundNumber(result.v.n, result.v.d))

parseCleanExpression(cleanExpression) ==
    IF cleanExpression = <<>> THEN Returned(0)
    ELSE IF ~isValidExpression(cleanExpression) THEN Threw
    ELSE Rounded(evaluateExpression(cleanExpression))

parseExpressionTry(expression) ==
    IF Falsy(expression) THEN Returned(0)
    ELSE IF expression.type = "number" THEN Threw
    ELSE IF \A i \in 1..Len(expression.s) : expression.s[i] \in WhiteSpace THEN Returned(0)
    ELSE parseCleanExpression(Clean(expression.s))

\* the catch block of parseExpression returns 0
ZeroWhenThrown(r) == IF r.threw THEN 0 ELSE r.v

\* parseExpression
parseExpression(expression) == ZeroWhenThrown(parseExpressionTry(expression))

\* the text evaluates to a number this model can hold
Supported(r) == ~(~r.threw /\ r.v.k = "unsupported")
Evaluable(s) == Supported(RunFunction(Clean(s)))

\* ------------------------------------------------------------------------
\* CalculationEngine: settlement.  Amounts are whole numbers of cents.
\* A session is [isNull, membersAbsent, members]; a member is
\* [id, name, items, advance], an item [name, price]; advance and price are
\* values as passed to parseExpression.
\* ------------------------------------------------------------------------
RECURSIVE Sum(_)
Sum(s) == IF s = <<>> THEN 0 ELSE Head(s) + Sum(Tail(s))

\* a sequence given as a function, with every element worked out once
Each(f) == f \o <<>>

\* calculateMemberCosts: advance and totalSpent of every member
calculateMemberCosts(members) ==
    Each([i \in 1..Len(members) |->
        LET member == members[i]
            spent == Sum([j \in 1..Len(member.items) |->
                             parseExpression(member.items[j].price)])
        IN [id |-> member.id,
            name |-> member.name,
            items |-> member.items,
            advance |-> parseExpression(member.advance),
            totalSpent |-> roundNumber(spent, Factor),
            itemCount |-> Len(member.items)]])

\* a variant that totals what the members advanced
totalCostOfAdvances(memberCalculations) ==
    Sum([i \in 1..Len(memberCalculations) |-> memberCalculations[i].advance])

\* totals.totalCost before rounding: the members' totalSpent summed
totalCostOf(memberCalculations) ==
    Sum([i \in 1..Len(memberCalculations) |-> memberCalculations[i].totalSpent])

\* calculateSessionTotals: every numeric field goes through roundNumber;
\* memberCount and totalItems are counts, the other fields cents
calculateSessionTotals(memberCalculations) ==
    LET memberCount == Len(memberCalculations)
        totalCost == totalCostOf(memberCalculations)
        totalAdvance == Sum([i \in 1..memberCount |-> memberCalculations[i].advance])
        totalItems == Sum([i \in 1..memberCount |-> memberCalculations[i].itemCount])
        perPerson == IF memberCount > 0
                     THEN roundNumber(totalCost, Factor * memberCount)
                     ELSE roundNumber(0, 1)
    IN [totalCost |-> roundNumber(totalCost, Factor),
        totalAdvance |-> roundNumber(totalAdvance, Factor),
        memberCount |-> roundNumber(memberCount, 1) \div Factor,
        totalItems |-> roundNumber(totalItems, 1) \div Factor,
        averageSpent |-> perPerson,
        costPerPerson |-> perPerson,
        remainingBalance |-> roundNumber(totalCost - totalAdvance, Factor)]

\* The rational n/d cents (d > 0) against the literal 0.01 of the source,
\* which is Factor/100 cents: negative when n/d < 0.01, zero when equal,
\* positive when n/d > 0.01
AgainstHundredth(n, d) ==
    LET g == GCD(100, Factor) IN n * (100 \div g) - d * (Factor \div g)

\* a variant that leaves a refund's final amount negative
determineStatusSigned(n, d) ==
    IF AgainstHundredth(Abs(n), d) < 0
    THEN [status |-> "even", finalAmount |-> roundNumber(0, 1)]
    ELSE IF n > 0
    THEN [status |-> "needs_to_pay", finalAmount |-> roundNumber(n, Factor * d)]
    ELSE [status |-> "gets_refund", finalAmount |-> roundNumber(n, Factor * d)]

\* The status and final amount of a member whose share less advance is the
\* rational n/d cents (d > 0)
determineStatus(n, d) ==
    IF AgainstHundredth(Abs(n), d) < 0
    THEN [status |-> "even", finalAmount |-> roundNumber(0, 1)]
    ELSE IF n > 0
    THEN [status |-> "needs_to_pay", finalAmount |-> roundNumber(n, Factor * d)]
    ELSE [status |-> "gets_refund", finalAmount |-> roundNumber(Abs(n), Factor * d)]

\* a member calculation with its share, final amount and status
WithFinal(member, amountPerPerson, st) ==
    [id |-> member.id, name |-> member.name, items |-> member.items,
     advance |-> member.advance, totalSpent |-> member.totalSpent,
     itemCount |-> member.itemCount,
     amountPerPerson |-> amountPerPerson,
     finalAmount |-> st.finalAmount,
     status |-> st.status]

\* calculateFinalAmounts: equal split
calculateFinalAmounts(memberCalculations, totals) ==
    Each([i \in 1..Len(memberCalculations) |->
        LET member == memberCalculations[i]
            amountPerPerson == totals.costPerPerson
        IN WithFinal(member,
                     roundNumber(amountPerPerson, Factor),
                     determineStatus(amountPerPerson - member.advance, 1))])

\* the [name, amount] entries of the members with a status
EntriesWithStatus(memberCalculations, status) ==
    LET chosen == SelectSeq(memberCalculations, LAMBDA m : m.status = status) IN
    Each([i \in 1..Len(chosen) |-> [name |-> chosen[i].name, amount |-> chosen[i].finalAmount]])

\* a variant that adds the two totals
balanceCheckOfSum(totalNeedToPay, totalRefund) ==
    roundNumber(totalNeedToPay + totalRefund, Factor)

\* summary.balanceCheck
balanceCheckOf(totalNeedToPay, totalRefund) ==
    roundNumber(totalNeedToPay - totalRefund, Factor)

\* generateSummary
generateSummary(memberCalculations, totals) ==
    LET needToPay == EntriesWithStatus(memberCalculations, "needs_to_pay")
        getRefund == EntriesWithStatus(memberCalculations, "gets_refund")
        even == EntriesWithStatus(memberCalculations, "even")
        totalNeedToPay == roundNumber(Sum([i \in 1..Len(needToPay) |-> needToPay[i].amount]), Factor)
        totalRefund == roundNumber(Sum([i \in 1..Len(getRefund) |-> getRefund[i].amount]), Factor)
    IN [needToPay |-> needToPay,
        getRefund |-> getRefund,
        even |-> Each([i \in 1..Len(even) |-> [name |-> even[i].name, amount |-> 0]]),
        totalNeedToPay |-> totalNeedToPay,
        totalRefund |-> totalRefund,
        balanceCheck |-> balanceCheckOf(totalNeedToPay, totalRefund)]

\* validateCalculations: advances plus amounts to pay against the total cost
validateCalculations(memberCalculations, totals) ==
    LET totalAdvances == Sum([i \in 1..Len(memberCalculations) |-> memberCalculations[i].advance])
        paying == SelectSeq(memberCalculations, LAMBDA m : m.status = "needs_to_pay")
        totalNeedToPay == Sum([i \in 1..Len(paying) |-> paying[i].finalAmount])
        calculatedTotal == totalAdvances + totalNeedToPay
        difference == Abs(calculatedTotal - totals.totalCost)
    IN AgainstHundredth(difference, 1) <= 0

\* what a calculation returns: threw, or the settlement result; valid is
\* what validateCalculations found (it only logs a warning)
NoResult ==
    [threw |-> FALSE, done |-> FALSE, memberCalculations |-> <<>>,
     totals |-> calculateSessionTotals(<<>>),
     summary |-> generateSummary(<<>>, calculateSessionTotals(<<>>)),
     valid |-> TRUE]
Result(memberCalculations, totals, summary, valid) ==
    [threw |-> FALSE, done |-> TRUE, memberCalculations |-> memberCalculations,
     totals |-> totals, summary |-> summary, valid |-> valid]
Raised == [NoResult EXCEPT !.threw = TRUE, !.done = TRUE]

\* a variant that refuses a session without members
getEmptyCalculationRaised == Raised

\* what calculateSession returns for a session without members
getEmptyCalculation ==
    Result(<<>>, calculateSessionTotals(<<>>),
           generateSummary(<<>>, calculateSessionTotals(<<>>)), TRUE)

\* calculateSession from the final amounts on: summary and validation
summarized(finalCalculations, totals) ==
    Result(finalCalculations, totals,
           generateSummary(finalCalculations, totals),
           validateCalculations(finalCalculations, totals))

\* calculateSession from the totals on
finalized(memberCalculations, totals) ==
    summarized(calculateFinalAmounts(memberCalculations, totals), totals)

\* calculateSession from the member costs on
totalled(memberCalculations) ==
    finalized(memberCalculations, calculateSessionTotals(memberCalculations))

\* calculateSession
calculateSession(session) ==
    IF session.isNull \/ session.membersAbsent \/ Len(session.members) = 0
    THEN getEmptyCalculation
    ELSE totalled(calculateMemberCosts(session.members))

\* ------------------------------------------------------------------------
\* calculateCustomSplit.  percentages is [isNull, entries]; an entry is
\* [id, p] with p the percentage as a number value.
\* ------------------------------------------------------------------------
Percent(n, d) == Num(n, d, 1)

\* Object.values(percentages).reduce((sum, p) => sum + p, 0)
RECURSIVE totalPercentage(_, _)
totalPercentage(entries, i) ==
    IF i = 0 THEN Num(0, 1, 1)
    ELSE JsAdd(totalPercentage(entries, i - 1), entries[i].p)

\* a variant that gives every member the first percentage of the map
PercentageOfFirst(percentages, id) ==
    IF percentages.entries = <<>> THEN Num(0, 1, 1) ELSE percentages.entries[1].p

\* percentages[member.id] || 0
PercentageOf(percentages, id) ==
    LET hits == SelectSeq(percentages.entries, LAMBDA e : e.id = id) IN
    IF hits = <<>> THEN Num(0, 1, 1) ELSE hits[1].p

\* a variant that tolerates a sum up to 1 away from 100
notHundredByOne(total) ==
    LET off == JsSub(total, Num(100, 1, 1)) IN Abs(off.n) > off.d

\* Math.abs(totalPercentage - 100) > 0.01
notHundred(total) ==
    LET off == JsSub(total, Num(100, 1, 1)) IN Abs(off.n) * 100 > off.d

\* the member calculations with the custom percentages applied
customCalculations(memberCalculations, totals, percentages) ==
    Each([i \in 1..Len(memberCalculations) |->
        LET member == memberCalculations[i]
            percentage == PercentageOf(percentages, member.id)
            \* amountPerPerson = totalCost * percentage / 100, as n/d cents
            n == totals.totalCost * percentage.n
            d == percentage.d * 100
        IN WithFinal(member,
                     roundNumber(n, Factor * d),
                     determineStatus(n - member.advance * d, d))])

\* calculateCustomSplit from the custom calculations on
customSummarized(calculations, totals) ==
    Result(calculations, totals, generateSummary(calculations, totals), TRUE)

\* calculateCustomSplit from the totals on
customFinalized(memberCalculations, totals, percentages) ==
    customSummarized(customCalculations(memberCalculations, totals, percentages), totals)

\* calculateCustomSplit from the member costs on
customTotalled(memberCalculations, percentages) ==
    customFinalized(memberCalculations, calculateSessionTotals(memberCalculations), percentages)

calculateCustomSplit(session, percentages) ==
    IF session.isNull \/ session.membersAbsent \/ percentages.isNull THEN Raised
    ELSE IF notHundred(totalPercentage(percentages.entries, Len(percentages.entries)))
    THEN Raised
    ELSE customTotalled(calculateMemberCosts(session.members), percentages)

\* ------------------------------------------------------------------------
\* calculateWithTip.  tipAmount is a value as passed to parseExpression,
\* tipDistribution a text.  The outcome is [result, passed]: what the call
\* returns (or that it threw), and the caller's session object after it.
\* ------------------------------------------------------------------------

\* JSON.parse(JSON.stringify(session)): texts, finite numbers and null
\* survive; a missing member list stays missing
jsonValue(x) ==
    IF x.type = "string" THEN Text(x.s)
    ELSE IF x.type = "number" THEN Number(x.n, x.d)
    ELSE Null

jsonItems(items) ==
    Each([j \in 1..Len(items) |-> [name |-> items[j].name, price |-> jsonValue(items[j].price)]])

jsonSession(session) ==
    IF session.isNull THEN [isNull |-> TRUE, membersAbsent |-> TRUE, members |-> <<>>]
    ELSE IF session.membersAbsent
    THEN [isNull |-> FALSE, membersAbsent |-> TRUE, members |-> <<>>]
    ELSE [isNull |-> FALSE, membersAbsent |-> FALSE,
          members |-> Each([i \in 1..Len(session.members) |->
              [id |-> session.members[i].id,
               name |-> session.members[i].name,
               items |-> jsonItems(session.members[i].items),
               advance |-> jsonValue(session.members[i].advance)]])]

\* a variant that works on the passed-in session itself
sessionWithTipOfSession(session) == [shared |-> TRUE, session |-> session]

\* sessionWithTip: an object of its own, so what is pushed onto it does not
\* reach the passed-in session
sessionWithTipOf(session) == [shared |-> FALSE, session |-> jsonSession(session)]

\* a variant that returns early only below zero
tipIsNoneBelow(tipValue) == tipValue < 0

\* tipValue <= 0
tipIsNone(tipValue) == tipValue <= 0

\* member.items.push({name, price}) for every member; prices[i] is the
\* number pushed for member i
pushTip(members, name, prices) ==
    Each([i \in 1..Len(members) |->
        [members[i] EXCEPT !.items = Append(@, [name |-> name, price |-> prices[i]])]])

\* return this.calculateSession(sessionWithTip)
tipReturn(session, copy, members) ==
    [result |-> calculateSession([copy.session EXCEPT !.members = members]),
     passed |-> IF copy.shared THEN [session EXCEPT !.members = members] ELSE session]

\* a variant that shares the tip equally when nothing was spent
tipProportionalOrEqual(session, copy, memberCalculations, totalSpent, tipValue) ==
    IF totalSpent > 0
    THEN tipReturn(session, copy,
             pushTip(copy.session.members, "Tip (Proportional)",
                     [i \in 1..Len(memberCalculations) |->
                         Number(memberCalculations[i].totalSpent * tipValue,
                                totalSpent * Factor)]))
    ELSE tipReturn(session, copy,
             pushTip(copy.session.members, "Tip (Proportional)",
                     [i \in 1..Len(memberCalculations) |->
                         Number(tipValue, Factor * Len(memberCalculations))]))

\* the proportional branch from the member costs on; tipForMember is the
\* number (memberSpent / totalSpent) * tipValue (amounts are in cents)
tipProportional(session, copy, memberCalculations, totalSpent, tipValue) ==
    IF totalSpent > 0
    THEN tipReturn(session, copy,
             pushTip(copy.session.members, "Tip (Proportional)",
                     [i \in 1..Len(memberCalculations) |->
                         Number(memberCalculations[i].totalSpent * tipValue,
                                totalSpent * Factor)]))
    ELSE tipReturn(session, copy, copy.session.members)

tipOfCosts(session, copy, memberCalculations, tipValue) ==
    tipProportional(session, copy, memberCalculations, totalCostOf(memberCalculations), tipValue)

\* the branches on tipDistribution; reading .members of null, the length of
\* a missing list, or iterating a missing list is a TypeError, which the
\* catch block throws on.  tipPerPerson is the number
\* tipValue / members.length.
tipDistributed(session, copy, tipValue, distribution) ==
    IF distribution = "equal"
    THEN IF copy.session.isNull \/ copy.session.membersAbsent
         THEN [result |-> Raised, passed |-> session]
         ELSE tipReturn(session, copy,
                  pushTip(copy.session.members, "Tip (Equal Split)",
                          [i \in 1..Len(copy.session.members) |->
                              Number(tipValue, Factor * Len(copy.session.members))]))
    ELSE IF distribution = "proportional"
    THEN IF session.isNull \/ session.membersAbsent
         THEN [result |-> Raised, passed |-> session]
         ELSE tipOfCosts(session, copy, calculateMemberCosts(session.members), tipValue)
    ELSE tipReturn(session, copy, copy.session.members)

tipOfValue(session, tipValue, distribution) ==
    IF tipIsNone(tipValue)
    THEN [result |-> calculateSession(session), passed |-> session]
    ELSE tipDistributed(session, sessionWithTipOf(session), tipValue, distribution)

calculateWithTip(session, tipAmount, tipDistribution) ==
    tipOfValue(session, parseExpression(tipAmount), tipDistribution)

\* ------------------------------------------------------------------------
\* generatePaymentSuggestions
\* ------------------------------------------------------------------------

\* entries.sort((a, b) => b.amount - a.amount): descending and stable
RECURSIVE InsertDescending(_, _)
InsertDescending(sorted, e) ==
    IF sorted = <<>> THEN <<e>>
    ELSE IF Head(sorted).amount >= e.amount
         THEN <<Head(sorted)>> \o InsertDescending(Tail(sorted), e)
         ELSE <<e>> \o sorted

RECURSIVE SortDescending(_, _)
SortDescending(entries, i) ==
    IF i = 0 THEN <<>>
    ELSE InsertDescending(SortDescending(entries, i - 1), entries[i])

Min(a, b) == IF a <= b THEN a ELSE b
Max(a, b) == IF a >= b THEN a ELSE b

\* a variant that transfers the larger of the two amounts
transferAmountOfLarger(payer, receiver) == Max(payer.amount, receiver.amount)

\* Math.min(payer.amount, receiver.amount)
transferAmountOf(payer, receiver) == Min(payer.amount, receiver.amount)

\* a variant that moves on from every entry
isSettledAlways(amount) == TRUE

\* amount <= 0.01: the entry is done and its index moves on
isSettled(amount) == AgainstHundredth(amount, 1) <= 0

\* the while loop, from the given indices (0-based, as in the source) on:
\* the suggestions, the entries as the loop leaves them and the number of
\* iterations run
RECURSIVE MatchLoop(_, _, _, _, _, _)
MatchLoop(needToPay, getRefund, payIndex, refundIndex, suggestions, iterations) ==
    IF ~(payIndex < Len(needToPay) /\ refundIndex < Len(getRefund))
    THEN [suggestions |-> suggestions, needToPay |-> needToPay,
          getRefund |-> getRefund, iterations |-> iterations]
    ELSE
    LET payer == needToPay[payIndex + 1]
        receiver == getRefund[refundIndex + 1]
        transferAmount == transferAmountOf(payer, receiver)
        pushed == IF AgainstHundredth(transferAmount, 1) > 0
                  THEN Append(suggestions,
                              [from |-> payer.name, to |-> receiver.name,
                               amount |-> roundNumber(transferAmount, Factor)])
                  ELSE suggestions
        payerLeft == payer.amount - transferAmount
        receiverLeft == receiver.amount - transferAmount
    IN MatchLoop([needToPay EXCEPT ![payIndex + 1].amount = payerLeft],
                 [getRefund EXCEPT ![refundIndex + 1].amount = receiverLeft],
                 IF isSettled(payerLeft) THEN payIndex + 1 ELSE payIndex,
                 IF isSettled(receiverLeft) THEN refundIndex + 1 ELSE refundIndex,
                 pushed, iterations + 1)

MatchRun(calculations) ==
    LET pay == EntriesWithStatus(calculations.memberCalculations, "needs_to_pay")
        refund == EntriesWithStatus(calculations.memberCalculations, "gets_refund")
    IN MatchLoop(SortDescending(pay, Len(pay)), SortDescending(refund, Len(refund)),
                 0, 0, <<>>, 0)

generatePaymentSuggestions(calculations) == MatchRun(calculations).suggestions

\* ------------------------------------------------------------------------
\* AnalyticsManager: cost analytics.  A saved session is
\* [totalsAbsent, totalCost], totalCost in cents; amounts that are not whole
\* numbers of cents are [n, d], the rational n/d cents.
\* ------------------------------------------------------------------------

\* costs.sort((a, b) => a - b)
RECURSIVE InsertAscending(_, _)
InsertAscending(sorted, cost) ==
    IF sorted = <<>> THEN <<cost>>
    ELSE IF Head(sorted) <= cost
         THEN <<Head(sorted)>> \o InsertAscending(Tail(sorted), cost)
         ELSE <<cost>> \o sorted

RECURSIVE SortAscending(_, _)
SortAscending(costs, i) ==
    IF i = 0 THEN <<>> ELSE InsertAscending(SortAscending(costs, i - 1), costs[i])

\* Math.min(...costs), Math.max(...costs) of a list that is not empty
RECURSIVE MathMin(_, _)
MathMin(costs, i) == IF i = 1 THEN costs[1] ELSE Min(MathMin(costs, i - 1), costs[i])
RECURSIVE MathMax(_, _)
MathMax(costs, i) == IF i = 1 THEN costs[1] ELSE Max(MathMax(costs, i - 1), costs[i])

\* one bucket of the distribution, i counted from 0.  bucketSize is
\* range / buckets, so bucketMin = (min * buckets + i * range) / buckets;
\* the comparisons are made on the numerators.  range is the label: the two
\* bounds as formatCurrency rounds them before it prints them.
costBucket(costs, min, range, buckets, i) ==
    LET bucketMin == min * buckets + i * range
        bucketMax == min * buckets + (i + 1) * range
        count == Cardinality({j \in 1..Len(costs) :
                     costs[j] * buckets >= bucketMin /\ costs[j] * buckets < bucketMax})
    IN [bucketMin |-> [n |-> bucketMin, d |-> buckets],
        bucketMax |-> [n |-> bucketMax, d |-> buckets],
        range |-> <<roundNumber(bucketMin, buckets * Factor),
                    roundNumber(bucketMax, buckets * Factor)>>,
        count |-> count,
        percentage |-> [n |-> count * 100, d |-> Len(costs)]]

costBuckets(costs, min, max, buckets) ==
    Each([k \in 1..buckets |-> costBucket(costs, min, max - min, buckets, k - 1)])

\* generateCostDistribution
generateCostDistribution(costs) ==
    IF Len(costs) = 0 THEN <<>>
    ELSE costBuckets(costs, MathMin(costs, Len(costs)), MathMax(costs, Len(costs)),
                     Min(10, Len(costs)))

\* sessions.map(s => s.totals?.totalCost || 0).filter(c => c > 0)
positiveCosts(sessions) ==
    SelectSeq(Each([i \in 1..Len(sessions) |->
                  IF sessions[i].totalsAbsent THEN 0 ELSE sessions[i].totalCost]),
              LAMBDA c : c > 0)

\* generateCostAnalytics from the sorted costs on
costAnalyticsOf(costs) ==
    IF Len(costs) = 0
    THEN [total |-> 0, average |-> [n |-> 0, d |-> 1], median |-> 0, min |-> 0, max |-> 0,
          distribution |-> <<>>]
    ELSE [total |-> Sum(costs),
          average |-> [n |-> Sum(costs), d |-> Len(costs)],
          median |-> costs[(Len(costs) \div 2) + 1],
          min |-> costs[1],
          max |-> costs[Len(costs)],
          distribution |-> generateCostDistribution(costs)]

sortedCosts(costs) == SortAscending(costs, Len(costs))

\* generateCostAnalytics
generateCostAnalytics(sessions) == costAnalyticsOf(sortedCosts(positiveCosts(sessions)))

\* ------------------------------------------------------------------------
\* roundNumber over the whole range of a JavaScript number.  Here a finite
\* number is m * 10^e, [k |-> "dec", m, e], with a mantissa m of at most
\* three digits, so that numbers near Number.MAX_VALUE (1.797...e308) can be
\* written; the binary rounding of the mantissa is not modelled.
\* ------------------------------------------------------------------------
Decimal(m, e) == [k |-> "dec", m |-> m, e |-> e]

\* the precision argument; without it the engine's precision is taken
Precision(p) == [absent |-> FALSE, p |-> p]
NoPrecision == [absent |-> TRUE, p |-> 0]

\* m * 10^x is beyond Number.MAX_VALUE: the operation gives an infinity
Overflows(m, x) ==
    /\ m # 0
    /\ \/ x > 308
       \/ x > 305 /\ Abs(m) * 1000 > 1797 * 10^(308 - x)

\* number * factor, factor = Math.pow(10, p): 10^309 and beyond is Infinity,
\* and 0 * Infinity is NaN
timesFactor(v, p) ==
    IF p > 308 THEN (IF v.m = 0 THEN NaN ELSE Infinity(IF v.m > 0 THEN 1 ELSE -1))
    ELSE IF Overflows(v.m, v.e + p) THEN Infinity(IF v.m > 0 THEN 1 ELSE -1)
    ELSE Decimal(v.m, v.e + p)

\* the switch on roundingMethod: Math.floor, Math.ceil or Math.round of the
\* product; NaN and the infinities stay, m * 10^e with e >= 0 is an integer
integerOf(how, product) ==
    IF product.k # "dec" \/ product.e >= 0 THEN product
    ELSE IF how = "floor" THEN Decimal(MathFloor(product.m, 10^(-product.e)), 0)
    ELSE IF how = "ceil" THEN Decimal(MathCeil(product.m, 10^(-product.e)), 0)
    ELSE Decimal(MathRound(product.m, 10^(-product.e)), 0)

\* ... / factor: Infinity / Infinity is NaN
overFactor(integer, p) ==
    IF integer.k = "nan" THEN NaN
    ELSE IF integer.k = "inf" THEN (IF p > 308 THEN NaN ELSE integer)
    ELSE Decimal(integer.m, integer.e - p)

roundNumberTo(how, v, p) == overFactor(integerOf(how, timesFactor(v, p)), p)

\* roundNumber(number, precision = this.precision) of an engine whose
\* roundingMethod is how
roundNumberOf(how, v, given) ==
    roundNumberTo(how, v, IF given.absent THEN precision ELSE given.p)

\* ------------------------------------------------------------------------
\* Inputs
\* ------------------------------------------------------------------------
MaxMembers == 3
MaxMatchMembers == 3
MaxAmount == 4

DigitChar(v) ==
    IF v = 0 THEN "0" ELSE IF v = 1 THEN "1" ELSE IF v = 2 THEN "2"
    ELSE IF v = 3 THEN "3" ELSE IF v = 4 THEN "4" ELSE IF v = 5 THEN "5"
    ELSE IF v = 6 THEN "6" ELSE IF v = 7 THEN "7" ELSE IF v = 8 THEN "8"
    ELSE "9"

\* the decimal digits of a whole number n >= 0
RECURSIVE NatText(_)
NatText(n) == IF n < 10 THEN <<DigitChar(n)>> ELSE NatText(n \div 10) \o <<DigitChar(n % 10)>>

\* an amount of c >= 0 cents as a user types it: "0.03", "1.20"
CentsText(c) ==
    NatText(c \div 100) \o <<".", DigitChar((c % 100) \div 10), DigitChar(c % 10)>>

\* String(N) of a whole number N, as JavaScript prints it
NumberToString(n) == IF n < 0 THEN <<"-">> \o NatText(-n) ELSE NatText(n)

Names == <<"Alice", "Bob", "Carol", "Dave", "Eve", "Frank">>
MemberName(i) == IF i <= Len(Names) THEN Names[i] ELSE "Member"

Item(price) == [name |-> "item", price |-> price]
Member(i, items, advance) ==
    [id |-> i, name |-> MemberName(i), items |-> items, advance |-> advance]
Session(members) == [isNull |-> FALSE, membersAbsent |-> FALSE, members |-> members]
NullSession == [isNull |-> TRUE, membersAbsent |-> TRUE, members |-> <<>>]
SessionWithoutMembers == [isNull |-> FALSE, membersAbsent |-> TRUE, members |-> <<>>]
NoPercentages == [isNull |-> TRUE, entries |-> <<>>]

\* the session of members 1..n whose items and advance are given by f
SessionOf(n, f) == Session(Each([i \in 1..n |-> Member(i, f[i].items, f[i].advance)]))

\* prices and advances as the page stores them: typed text, and the number 0
\* a new member starts with; 60000 as a number is what a caller of the
\* engine may pass
ItemLists ==
    {<<>>,
     <<Item(Text(<<"2", "*", "2", "5", "0", "0", "0">>))>>,
     <<Item(Text(<<"0", ".", "0", "1">>))>>}
AdvanceInputs ==
    {Number(0, 1), Text(<<"6", "0", "0", "0", "0">>), Number(60000, 1),
     Text(<<"0", ".", "0", "1">>)}
MemberShapes == [items : ItemLists, advance : AdvanceInputs]

\* members that each spend MaxAmount cents and have advanced MaxAmount - f
\* cents, f in -MaxAmount..MaxAmount: the member's balance is f
MatchShapes ==
    {[items |-> <<Item(Text(CentsText(MaxAmount)))>>,
      advance |-> Text(CentsText(MaxAmount - f))] : f \in (-MaxAmount)..MaxAmount}

\* ------------------------------------------------------------------------
\* State
\* ------------------------------------------------------------------------
VARIABLES
    pc,            \* "input", "calculated", "suggested", "parsed"
    session,       \* the session the caller holds
    percentages,   \* the percentages passed to calculateCustomSplit
    calculations,  \* what the last calculation returned
    suggestions,   \* what generatePaymentSuggestions returned
    expression,    \* the value passed to parseExpression
    parsed,        \* what parseExpression returned
    tipAmount,       \* the tip amount passed to calculateWithTip
    tipDistribution, \* the distribution mode passed to calculateWithTip
    sessions,        \* the saved sessions passed to generateCostAnalytics
    costAnalytics,   \* what generateCostAnalytics returned
    method,          \* the engine's roundingMethod when roundNumber is called
    number,          \* the number passed to roundNumber
    digits,          \* the precision passed to roundNumber
    rounded,         \* what roundNumber returned
    needToPay,       \* generatePaymentSuggestions: the sorted needToPay entries
    getRefund,       \* generatePaymentSuggestions: the sorted getRefund entries
    payIndex,        \* generatePaymentSuggestions: payIndex
    refundIndex,     \* generatePaymentSuggestions: refundIndex
    iterations,      \* how often the body of the while loop has run
    currentMembers,  \* app.currentSession.members: [id, name] in list order
    nextId,          \* how many ids generateId has handed out, plus one
    called,          \* the last member operation: its name and, of an
                     \* addMember, the text typed and the list it found
    stored,          \* chiacheck_sessions: the ids of the stored sessions
    recent,          \* chiacheck_recent: the ids of the recent entries
    suggested,       \* chiacheck_suggestions: the member names
    returned,        \* what the last saveSession or deleteSession returned
    order,           \* the ids saveSession has stored, the latest first
    nextSession,     \* the id of the next new session
    aged,            \* the ids of the sessions created over six months ago
    before,          \* the last storage call and the lists it found
    written,         \* the last saveSession wrote its list of sessions
    sessionMembers,     \* app.currentSession.members with their advances
    sessionTotals,      \* app.currentSession.totals
    persisted,          \* the copy of the current session in the store
    recalculateTimeout, \* the 500 ms timer of debouncedRecalculate is set
    saveTimeout         \* the 2 s timer of the auto-save listener is set

engineVars == <<pc, session, percentages, calculations, suggestions, expression, parsed>>
tipVars == <<tipAmount, tipDistribution>>
analyticsVars == <<sessions, costAnalytics>>
roundVars == <<method, number, digits, rounded>>
loopVars == <<needToPay, getRefund, payIndex, refundIndex, iterations>>
memberVars == <<currentMembers, nextId, called>>
storeVars == <<stored, recent, suggested, returned, order, nextSession>>
quotaVars == <<aged, before, written>>
appVars == <<sessionMembers, sessionTotals, persisted, recalculateTimeout, saveTimeout>>
otherVars == <<loopVars, memberVars, storeVars, quotaVars, appVars>>
vars == <<engineVars, tipVars, analyticsVars, roundVars, otherVars>>

\* the variables of the operations a specification does not call
NoTip == tipAmount = Null /\ tipDistribution = "equal"
NoAnalytics == sessions = <<>> /\ costAnalytics = <<>>
NoRounding == method = "round" /\ number = 0 /\ digits = NoPrecision /\ rounded = 0
NoLoop ==
    /\ needToPay = <<>> /\ getRefund = <<>>
    /\ payIndex = 0 /\ refundIndex = 0 /\ iterations = 0
NoCall == [op |-> "none", typed |-> <<>>, before |-> <<>>]
NoMembers == currentMembers = <<>> /\ nextId = 1 /\ called = NoCall
EmptyStorage ==
    /\ stored = <<>> /\ recent = <<>> /\ suggested = <<>>
    /\ returned = TRUE /\ order = <<>> /\ nextSession = 1
    /\ aged = {} /\ written = FALSE
    /\ before = [op |-> "none", stored |-> <<>>, recent |-> <<>>, suggested |-> <<>>]
\* the totals initializeSession gives a new session, in cents
initialTotals ==
    [totalCost |-> 0, totalAdvance |-> 0, memberCount |-> 0,
     costPerPerson |-> 0, remainingBalance |-> 0]
NotPersisted == [saved |-> FALSE, members |-> <<>>, totals |-> initialTotals]
NewSession ==
    /\ sessionMembers = <<>>
    /\ sessionTotals = initialTotals
    /\ persisted = NotPersisted
    /\ recalculateTimeout = FALSE
    /\ saveTimeout = FALSE
NoOther == NoLoop /\ NoMembers /\ EmptyStorage /\ NewSession

InitWith(s) ==
    /\ pc = "input"
    /\ session = s
    /\ percentages = NoPercentages
    /\ calculations = NoResult
    /\ suggestions = <<>>
    /\ expression = Null
    /\ parsed = 0
    /\ NoTip /\ NoAnalytics /\ NoRounding /\ NoOther

\* calculationEngine.calculateSession(session)
CalculateSession ==
    /\ pc = "input"
    /\ calculations' = calculateSession(session)
    /\ pc' = "calculated"
    /\ UNCHANGED <<session, percentages, suggestions, expression, parsed>>
    /\ UNCHANGED <<tipVars, analyticsVars, roundVars>>
    /\ UNCHANGED otherVars

\* calculationEngine.generatePaymentSuggestions(calculations)
GeneratePaymentSuggestions ==
    /\ pc = "calculated"
    /\ ~calculations.threw
    /\ suggestions' = generatePaymentSuggestions(calculations)
    /\ pc' = "suggested"
    /\ UNCHANGED <<session, percentages, calculations, expression, parsed>>
    /\ UNCHANGED <<tipVars, analyticsVars, roundVars>>
    /\ UNCHANGED otherVars

Init ==
    \/ \E s \in {NullSession, SessionWithoutMembers} : InitWith(s)
    \/ \E n \in 0..MaxMembers : \E f \in [1..n -> MemberShapes] : InitWith(SessionOf(n, f))
Next == CalculateSession \/ GeneratePaymentSuggestions
Spec == Init /\ [][Next]_vars

InitMatch ==
    \E n \in 0..MaxMatchMembers : \E f \in [1..n -> MatchShapes] : InitWith(SessionOf(n, f))
SpecMatch == InitMatch /\ [][Next]_vars

\* ------------------------------------------------------------------------
\* Custom split: the caller passes a session and a percentage map
\* ------------------------------------------------------------------------
MaxCustomMembers == 4

\* members of a custom split: one who bought an item of 0.02 and advanced
\* nothing, one who bought nothing and advanced 0.01
CustomShapes ==
    {[items |-> <<Item(Text(<<"0", ".", "0", "2">>))>>, advance |-> Number(0, 1)],
     [items |-> <<>>, advance |-> Text(<<"0", ".", "0", "1">>)]}

\* the values of a percentage map: 25, 50, 60, 41 and 39.995
PercentValues ==
    {Percent(25, 1), Percent(50, 1), Percent(60, 1), Percent(41, 1), Percent(7999, 200)}

\* the map that gives the keys first + 1 .. first + Len(values) the values
\* in turn; with first = 1 its last key can be the id of no member
PercentagesOf(first, values) ==
    [isNull |-> FALSE,
     entries |-> Each([i \in 1..Len(values) |-> [id |-> first + i, p |-> values[i]]])]

InitCustomWith(s, p) ==
    /\ pc = "input"
    /\ session = s
    /\ percentages = p
    /\ calculations = NoResult
    /\ suggestions = <<>>
    /\ expression = Null
    /\ parsed = 0
    /\ NoTip /\ NoAnalytics /\ NoRounding /\ NoOther

CustomSessions(s) ==
    \/ \E p \in {NoPercentages} : InitCustomWith(s, p)
    \/ \E k \in 0..MaxCustomMembers : \E first \in 0..1 : \E values \in [1..k -> PercentValues] :
          InitCustomWith(s, PercentagesOf(first, values))

InitCustom ==
    \/ \E s \in {NullSession, SessionWithoutMembers} : CustomSessions(s)
    \/ \E n \in 0..MaxCustomMembers : \E f \in [1..n -> CustomShapes] :
          CustomSessions(SessionOf(n, f))

\* calculationEngine.calculateCustomSplit(session, percentages)
CalculateCustomSplit ==
    /\ pc = "input"
    /\ calculations' = calculateCustomSplit(session, percentages)
    /\ pc' = "calculated"
    /\ UNCHANGED <<session, percentages, suggestions, expression, parsed>>
    /\ UNCHANGED <<tipVars, analyticsVars, roundVars>>
    /\ UNCHANGED otherVars

NextCustom == CalculateCustomSplit \/ GeneratePaymentSuggestions
SpecCustom == InitCustom /\ [][NextCustom]_vars

\* ------------------------------------------------------------------------
\* parseExpression on its own: the caller passes one value
\* ------------------------------------------------------------------------
MaxLen == 4

\* the characters a text is made of: digits, the operators, parentheses,
\* the decimal point, a blank and a letter
Alphabet == {"0", "1", "2", "+", "-", "*", "/", "(", ")", ".", " ", "a"}

\* values that are not text
OtherValues == {Null, Number(0, 1), Number(60000, 1), Number(5, 2)}

InitParseWith(e) ==
    /\ pc = "input"
    /\ session = NullSession
    /\ percentages = NoPercentages
    /\ calculations = NoResult
    /\ suggestions = <<>>
    /\ expression = e
    /\ parsed = 0
    /\ NoTip /\ NoAnalytics /\ NoRounding /\ NoOther

InitParse ==
    \/ \E e \in OtherValues : InitParseWith(e)
    \/ \E n \in 0..MaxLen : \E s \in [1..n -> Alphabet] :
          Evaluable(Each(s)) /\ InitParseWith(Text(Each(s)))

\* calculationEngine.parseExpression(expression)
ParseExpression ==
    /\ pc = "input"
    /\ parsed' = parseExpression(expression)
    /\ pc' = "parsed"
    /\ UNCHANGED <<session, percentages, calculations, suggestions, expression>>
    /\ UNCHANGED <<tipVars, analyticsVars, roundVars>>
    /\ UNCHANGED otherVars

NextParse == ParseExpression
SpecParse == InitParse /\ [][NextParse]_vars

\* ------------------------------------------------------------------------
\* Tip: the caller holds a session and calls calculateWithTip,
\* calculateSession and calculateCustomSplit on it, in any order.
\* percentages, tipAmount and tipDistribution are the arguments of the
\* last call (none when the call does not take them).
\* ------------------------------------------------------------------------
MaxTipMembers == 2

\* members of a tipped session: one who bought nothing and advanced 0.03,
\* one who bought an item of 0.02, one who bought items of 0.01 and 0.02
TipShapes ==
    {[items |-> <<>>, advance |-> Text(<<"0", ".", "0", "3">>)],
     [items |-> <<Item(Text(<<"0", ".", "0", "2">>))>>, advance |-> Number(0, 1)],
     [items |-> <<Item(Text(<<"0", ".", "0", "1">>)), Item(Text(<<"0", ".", "0", "2">>))>>,
      advance |-> Number(0, 1)]}

\* tip amounts: 0.03, 0 and -1 typed, nothing, and the number 3
TipAmounts ==
    {Text(<<"0", ".", "0", "3">>), Text(<<"0">>), Text(<<"-", "1">>), Null, Number(3, 1)}

TipDistributions == {"equal", "proportional", "none"}

\* percentage maps for members 1 and 2
TipPercentages ==
    {NoPercentages,
     PercentagesOf(0, <<Percent(50, 1), Percent(50, 1)>>),
     PercentagesOf(0, <<Percent(60, 1), Percent(41, 1)>>)}

InitTip ==
    \/ \E s \in {NullSession, SessionWithoutMembers} : InitWith(s)
    \/ \E n \in 0..MaxTipMembers : \E f \in [1..n -> TipShapes] : InitWith(SessionOf(n, f))

TipCalled(outcome, amount, distribution) ==
    /\ tipAmount' = amount
    /\ tipDistribution' = distribution
    /\ calculations' = outcome.result
    /\ session' = outcome.passed
    /\ pc' = "tipped"
    /\ percentages' = NoPercentages
    /\ UNCHANGED <<suggestions, expression, parsed>>
    /\ UNCHANGED <<analyticsVars, roundVars>>
    /\ UNCHANGED otherVars

\* calculationEngine.calculateWithTip(session, tipAmount, tipDistribution)
CalculateWithTip ==
    \E amount \in TipAmounts : \E distribution \in TipDistributions :
        TipCalled(calculateWithTip(session, amount, distribution), amount, distribution)

\* calculationEngine.calculateSession(session), at any time
CalculateSessionAgain ==
    /\ calculations' = calculateSession(session)
    /\ pc' = "calculated"
    /\ percentages' = NoPercentages
    /\ tipAmount' = Null /\ tipDistribution' = "equal"
    /\ UNCHANGED <<session, suggestions, expression, parsed>>
    /\ UNCHANGED <<analyticsVars, roundVars>>
    /\ UNCHANGED otherVars

\* calculationEngine.calculateCustomSplit(session, percentages), at any time
CalculateCustomSplitAgain ==
    \E p \in TipPercentages :
        /\ percentages' = p
        /\ calculations' = calculateCustomSplit(session, p)
        /\ pc' = "split"
        /\ tipAmount' = Null /\ tipDistribution' = "equal"
        /\ UNCHANGED <<session, suggestions, expression, parsed>>
        /\ UNCHANGED <<analyticsVars, roundVars>>
        /\ UNCHANGED otherVars

NextTip == CalculateWithTip \/ CalculateSessionAgain \/ CalculateCustomSplitAgain
SpecTip == InitTip /\ [][NextTip]_vars

\* ------------------------------------------------------------------------
\* Prices: sessions whose items carry any text a user can type as a price
\* ------------------------------------------------------------------------
MaxPriceMembers == 2
MaxItems == 2

\* prices as typed: 0.02, and texts that are no arithmetic expression:
\* "2+*3", "(2+3", "1/0", "+2"
PriceTexts ==
    {Text(<<"0", ".", "0", "2">>), Text(<<"2", "+", "*", "3">>), Text(<<"(", "2", "+", "3">>),
     Text(<<"1", "/", "0">>), Text(<<"+", "2">>)}

PriceShapes ==
    UNION {{[items |-> Each([j \in 1..k |-> Item(prices[j])]),
             advance |-> Text(<<"0", ".", "0", "3">>)] : prices \in [1..k -> PriceTexts]}
           : k \in 0..MaxItems}

InitPrices ==
    \E n \in 0..MaxPriceMembers : \E f \in [1..n -> PriceShapes] : InitWith(SessionOf(n, f))

NextPrices == CalculateSession
SpecPrices == InitPrices /\ [][NextPrices]_vars

\* ------------------------------------------------------------------------
\* Analytics: the caller passes the saved sessions
\* ------------------------------------------------------------------------
MaxSessions == 11
MaxMixedSessions == 3

\* saved sessions: one without totals, one with total cost 0, and sessions
\* that cost 0.01, 0.02 and 0.04
StoredSession(cost) == [totalsAbsent |-> FALSE, totalCost |-> cost]
SessionWithoutTotals == [totalsAbsent |-> TRUE, totalCost |-> 0]
StoredSessions == {SessionWithoutTotals} \cup {StoredSession(c) : c \in {0, 1, 2, 4}}

\* the sessions of a long history cost 0.01 or 0.04
LongHistorySessions == {StoredSession(c) : c \in {1, 4}}

InitAnalyticsWith(s) ==
    /\ pc = "input"
    /\ session = NullSession
    /\ percentages = NoPercentages
    /\ calculations = NoResult
    /\ suggestions = <<>>
    /\ expression = Null
    /\ parsed = 0
    /\ NoTip /\ NoRounding /\ NoOther
    /\ sessions = s
    /\ costAnalytics = <<>>

InitAnalytics ==
    \/ \E n \in 0..MaxMixedSessions : \E s \in [1..n -> StoredSessions] :
          InitAnalyticsWith(Each(s))
    \/ \E n \in (MaxMixedSessions + 1)..MaxSessions : \E s \in [1..n -> LongHistorySessions] :
          InitAnalyticsWith(Each(s))

\* analyticsManager.generateCostAnalytics(sessions)
GenerateCostAnalytics ==
    /\ pc = "input"
    /\ costAnalytics' = generateCostAnalytics(sessions)
    /\ pc' = "analysed"
    /\ UNCHANGED <<session, percentages, calculations, suggestions, expression, parsed>>
    /\ UNCHANGED <<tipVars, roundVars, sessions>>
    /\ UNCHANGED otherVars

NextAnalytics == GenerateCostAnalytics
SpecAnalytics == InitAnalytics /\ [][NextAnalytics]_vars

\* ------------------------------------------------------------------------
\* Rounding: the caller sets the engine's roundingMethod and calls
\* roundNumber
\* ------------------------------------------------------------------------
MaxMantissa == 15

\* decimal exponents of the numbers passed: thousandths to units, and the
\* top of the range
Exponents == {-3, -2, -1, 0, 306, 307, 308}

\* precisions passed: none, 0 to 3 decimals, and the largest powers of ten
Precisions == {NoPrecision} \cup {Precision(p) : p \in {0, 1, 2, 3, 308, 309}}

RoundingMethods == {"round", "floor", "ceil"}

InitRoundWith(how, v, given) ==
    /\ pc = "input"
    /\ session = NullSession
    /\ percentages = NoPercentages
    /\ calculations = NoResult
    /\ suggestions = <<>>
    /\ expression = Null
    /\ parsed = 0
    /\ NoTip /\ NoAnalytics /\ NoOther
    /\ method = how
    /\ number = v
    /\ digits = given
    /\ rounded = 0

InitRound ==
    \E how \in RoundingMethods : \E m \in (-MaxMantissa)..MaxMantissa : \E e \in Exponents :
        \E given \in Precisions : InitRoundWith(how, Decimal(m, e), given)

\* calculationEngine.roundNumber(number, precision)
RoundNumber ==
    /\ pc = "input"
    /\ rounded' = roundNumberOf(method, number, digits)
    /\ pc' = "rounded"
    /\ UNCHANGED <<session, percentages, calculations, suggestions, expression, parsed>>
    /\ UNCHANGED <<tipVars, analyticsVars, method, number, digits>>
    /\ UNCHANGED otherVars

NextRound == RoundNumber
SpecRound == InitRound /\ [][NextRound]_vars

\* ------------------------------------------------------------------------
\* Properties of the payment suggestions
\* ------------------------------------------------------------------------
MembersWithStatus(status) ==
    SelectSeq(calculations.memberCalculations, LAMBDA m : m.status = status)

SumOfFinalAmounts(status) ==
    LET ms == MembersWithStatus(status) IN Sum([i \in 1..Len(ms) |-> ms[i].finalAmount])

SumOfTransfers(transfers) == Sum([i \in 1..Len(transfers) |-> transfers[i].amount])

\* what a needs_to_pay member still owes, and what a gets_refund member is
\* still due, once every suggested transfer has been made
RemainingOwed(m) ==
    m.finalAmount - SumOfTransfers(SelectSeq(suggestions, LAMBDA t : t.from = m.name))
RemainingDue(m) ==
    m.finalAmount - SumOfTransfers(SelectSeq(suggestions, LAMBDA t : t.to = m.name))

PayersSettled ==
    LET ms == MembersWithStatus("needs_to_pay") IN
    \A i \in 1..Len(ms) : AgainstHundredth(RemainingOwed(ms[i]), 1) <= 0
ReceiversSettled ==
    LET ms == MembersWithStatus("gets_refund") IN
    \A i \in 1..Len(ms) : AgainstHundredth(RemainingDue(ms[i]), 1) <= 0

\* C1 as stated: after the suggested transfers every needs_to_pay member owes
\* at most 0.01 and every gets_refund member is due at most 0.01.
C1_AllSettled == pc = "suggested" => PayersSettled /\ ReceiversSettled

\* C1 amended: after the suggested transfers one of the two sides is settled:
\* every needs_to_pay member owes at most 0.01, or every gets_refund member
\* is due at most 0.01.
C1_OneSideSettled == pc = "suggested" => PayersSettled \/ ReceiversSettled

\* C1 witness: a transfer was suggested, every receiver is settled and one
\* of several payers still owes more than 0.01.
C1_Witness ==
    /\ pc = "suggested"
    /\ Len(suggestions) >= 1
    /\ Len(MembersWithStatus("needs_to_pay")) >= 2
    /\ ReceiversSettled
    /\ ~PayersSettled

\* C2: the suggested transfers sum to at most the smaller of the total owed
\* by needs_to_pay members and the total due to gets_refund members.
C2_TransfersWithinTotals ==
    pc = "suggested" =>
        SumOfTransfers(suggestions)
            <= Min(SumOfFinalAmounts("needs_to_pay"), SumOfFinalAmounts("gets_refund"))

\* C2 witness: several transfers whose sum is exactly the smaller total.
C2_Witness ==
    /\ pc = "suggested"
    /\ Len(suggestions) >= 2
    /\ SumOfTransfers(suggestions)
          = Min(SumOfFinalAmounts("needs_to_pay"), SumOfFinalAmounts("gets_refund"))

\* ------------------------------------------------------------------------
\* Properties of calculateSession
\* ------------------------------------------------------------------------
Calculated == pc \in {"calculated", "suggested"} /\ ~calculations.threw

MemberCalculationSum(field(_)) ==
    Sum([i \in 1..Len(calculations.memberCalculations) |->
            field(calculations.memberCalculations[i])])

SumOfTotalSpent == MemberCalculationSum(LAMBDA m : m.totalSpent)
SumOfAdvances == MemberCalculationSum(LAMBDA m : m.advance)

\* C3: the members' totalSpent sum to totals.totalCost within 0.01.
C3_TotalCostIsSumOfSpent ==
    Calculated =>
        AgainstHundredth(Abs(SumOfTotalSpent - calculations.totals.totalCost), 1) <= 0

\* C3 witness: a result in which two members spent different amounts.
C3_Witness ==
    /\ Calculated
    /\ \E i, j \in 1..Len(calculations.memberCalculations) :
          /\ calculations.memberCalculations[i].totalSpent > 0
          /\ calculations.memberCalculations[j].totalSpent
                > calculations.memberCalculations[i].totalSpent

ScenarioA(bobAdvance) ==
    Session(<<Member(1, <<Item(Text(<<"2", "*", "2", "5", "0", "0", "0">>))>>, Number(0, 1)),
              Member(2, <<>>, bobAdvance)>>)

ScenarioAOutcome ==
    /\ calculations.totals.costPerPerson = 25000 * Factor
    /\ calculations.memberCalculations[1].status = "needs_to_pay"
    /\ calculations.memberCalculations[1].finalAmount = 25000 * Factor
    /\ calculations.memberCalculations[2].status = "gets_refund"
    /\ calculations.memberCalculations[2].finalAmount = 35000 * Factor
    /\ suggestions = <<[from |-> "Alice", to |-> "Bob", amount |-> 25000 * Factor]>>

\* C8 as stated: in Scenario A, with Bob's advance the number 60000,
\* costPerPerson is 25000, Alice needs to pay 25000, Bob gets a refund of
\* 35000 and the one suggested transfer is Alice to Bob, 25000.
C8_ScenarioA ==
    (pc = "suggested" /\ session = ScenarioA(Number(60000, 1))) => ScenarioAOutcome

\* C8, with Bob's advance typed as the text "60000": the outcome is the one
\* the scenario states.
C8_ScenarioAFromText ==
    (pc = "suggested" /\ session = ScenarioA(Text(<<"6", "0", "0", "0", "0">>)))
        => ScenarioAOutcome

C8_ScenarioAFromTextReached ==
    pc = "suggested" /\ session = ScenarioA(Text(<<"6", "0", "0", "0", "0">>))

\* a price or advance given as a whole number, as the text of that number
TextOfNumber(x) == IF x.type = "number" THEN Text(NumberToString(x.n)) ELSE x

\* the session with every numeric price and advance given as text instead
TextOfNumbers(s) ==
    [s EXCEPT !.members =
        Each([i \in 1..Len(s.members) |->
            [s.members[i] EXCEPT
                !.advance = TextOfNumber(@),
                !.items = Each([j \in 1..Len(@) |-> [@[j] EXCEPT !.price = TextOfNumber(@)]])]])]

\* C9 as stated: calculateSession gives the same result for a session with
\* numeric prices and advances as for the session with their decimal text.
C9_NumberAsItsText ==
    pc \in {"calculated", "suggested"} => calculations = calculateSession(TextOfNumbers(session))

\* ------------------------------------------------------------------------
\* Properties of calculateCustomSplit
\* ------------------------------------------------------------------------
CustomSplitCalled == pc \in {"calculated", "suggested"}

\* the values of the percentage map summed, in two-hundredths of a percent
\* (every value of PercentValues is a whole number of them)
PercentSumIn200ths ==
    Sum([i \in 1..Len(percentages.entries) |->
            percentages.entries[i].p.n * (200 \div percentages.entries[i].p.d)])

SumsToHundred == PercentSumIn200ths = 100 * 200

\* the sum differs from 100 by more than 0.01
OffByMoreThanHundredth == Abs(PercentSumIn200ths - 100 * 200) > 2

SomethingAbsent == session.isNull \/ session.membersAbsent \/ percentages.isNull

KeysAreMemberIds ==
    \A i \in 1..Len(percentages.entries) :
        \E j \in 1..Len(session.members) : session.members[j].id = percentages.entries[i].id

SumOfAmountPerPerson == MemberCalculationSum(LAMBDA m : m.amountPerPerson)

\* C6 as stated: when the percentages sum to exactly 100, the members'
\* amountPerPerson sum to totals.totalCost within 0.01.
C6_SharesSumToTotalCost ==
    (CustomSplitCalled /\ ~calculations.threw /\ SumsToHundred) =>
        AgainstHundredth(Abs(SumOfAmountPerPerson - calculations.totals.totalCost), 1) <= 0

\* C6 amended: when the percentages sum to exactly 100 and every key of the
\* map is the id of a member, the members' amountPerPerson sum to
\* totals.totalCost within half a cent for each member.
C6_SharesOfMembersSumToTotalCost ==
    (CustomSplitCalled /\ ~calculations.threw /\ SumsToHundred /\ KeysAreMemberIds) =>
        2 * Abs(SumOfAmountPerPerson - calculations.totals.totalCost)
            <= Len(calculations.memberCalculations)

\* C6 witness: four members with 25 percent each of a total of 0.02: every
\* share rounds up to 0.01 and the shares sum to 0.04.
C6_Witness ==
    /\ CustomSplitCalled /\ ~calculations.threw /\ SumsToHundred /\ KeysAreMemberIds
    /\ calculations.totals.totalCost > 0
    /\ SumOfAmountPerPerson - calculations.totals.totalCost = 2

C7_NearHundredAccepted ==
    /\ CustomSplitCalled
    /\ ~SumsToHundred
    /\ ~calculations.threw
    /\ Len(calculations.memberCalculations) > 0

\* ------------------------------------------------------------------------
\* Properties of parseExpression
\* ------------------------------------------------------------------------

\* The grammar of the specification over the cleaned text: numeric literals,
\* binary + - * /, unary minus and parentheses.  Each recognizer gives the
\* position after what it recognizes from position i on, 0 when there is
\* nothing of its kind there.
RECURSIVE ArithmeticEnd(_, _)
RECURSIVE ArithmeticRest(_, _)
RECURSIVE TermEnd(_, _)
RECURSIVE TermRest(_, _)
RECURSIVE FactorEnd(_, _)

\* digits, with an optional fraction: "12", "1.5", "1.", ".5"
LiteralEnd(s, i) ==
    LET intEnd == DigitsEnd(s, i)
        fracEnd == IF CharAt(s, intEnd) = "." THEN DigitsEnd(s, intEnd + 1) ELSE intEnd
    IN IF fracEnd = i \/ (fracEnd = i + 1 /\ s[i] = ".") THEN 0 ELSE fracEnd

ClosedAt(s, e) == IF e # 0 /\ CharAt(s, e) = ")" THEN e + 1 ELSE 0

FactorEnd(s, i) ==
    IF CharAt(s, i) = "-" THEN FactorEnd(s, i + 1)
    ELSE IF CharAt(s, i) = "(" THEN ClosedAt(s, ArithmeticEnd(s, i + 1))
    ELSE LiteralEnd(s, i)

TermRest(s, e) ==
    IF e # 0 /\ CharAt(s, e) \in {"*", "/"} THEN TermRest(s, FactorEnd(s, e + 1)) ELSE e

TermEnd(s, i) == TermRest(s, FactorEnd(s, i))

ArithmeticRest(s, e) ==
    IF e # 0 /\ CharAt(s, e) \in {"+", "-"} THEN ArithmeticRest(s, TermEnd(s, e + 1)) ELSE e

ArithmeticEnd(s, i) == ArithmeticRest(s, TermEnd(s, i))

\* the whole text is an expression of the grammar
WellFormed(s) == ArithmeticEnd(s, 1) = Len(s) + 1

\* the value of a text that runs is not a finite number
NotFinite(r) == ~r.threw /\ r.v.k \in {"nan", "inf", "obj"}

\* Malformed input as the specification lists it: null or blank; text that,
\* once cleaned of blanks and foreign characters, is not an expression of
\* the grammar (this covers unbalanced parentheses); a value that is not
\* finite.
Malformed(e) ==
    \/ e.type = "null"
    \/ e.type = "string" /\ \A i \in 1..Len(e.s) : e.s[i] \in WhiteSpace
    \/ e.type = "string" /\ ~WellFormed(Clean(e.s))
    \/ e.type = "string" /\ NotFinite(RunFunction(Clean(e.s)))

\* C10 as stated: parseExpression returns 0 for every malformed input.
C10_MalformedIsZero ==
    (pc = "parsed" /\ Malformed(expression)) => parsed = 0

\* C10, the inputs the claim names: "2+*3", "(2+3", "1/0", blank and null
\* all give 0.
C10_NamedInputsAreZero ==
    /\ parseExpression(Text(<<"2", "+", "*", "3">>)) = 0
    /\ parseExpression(Text(<<"(", "2", "+", "3">>)) = 0
    /\ parseExpression(Text(<<"1", "/", "0">>)) = 0
    /\ parseExpression(Text(<<" ", " ">>)) = 0
    /\ parseExpression(Text(<<>>)) = 0
    /\ parseExpression(Null) = 0

\* The value of an expression of the grammar in exact arithmetic: decimal
\* literals, unary minus, * and / before + and -, operators of one level
\* taken from the left.  [e |-> the position after what was read (0 when
\* nothing of the kind is there), defined |-> the value exists (no division
\* by zero), n, d |-> the value n/d in lowest terms]
ExactValue(e, n, d) ==
    [e |-> e, defined |-> TRUE, n |-> n \div GCD(Abs(n), d), d |-> d \div GCD(Abs(n), d)]
NoValue(e) == [e |-> e, defined |-> FALSE, n |-> 0, d |-> 1]

RECURSIVE ArithmeticValue(_, _)
RECURSIVE ArithmeticRestValue(_, _)
RECURSIVE TermValue(_, _)
RECURSIVE TermRestValue(_, _)
RECURSIVE FactorValue(_, _)

LiteralValueTo(s, i, e) ==
    IF e = 0 THEN NoValue(0)
    ELSE LET intEnd == DigitsEnd(s, i)
             fracStart == IF intEnd < e THEN intEnd + 1 ELSE e
         IN ExactValue(e, DigitsValue(s, fracStart, e, 10, DigitsValue(s, i, intEnd, 10, 0)),
                       PowerOfTen(e - fracStart))

LiteralValue(s, i) == LiteralValueTo(s, i, LiteralEnd(s, i))

Negated(v) == IF v.e = 0 \/ ~v.defined THEN v ELSE ExactValue(v.e, -v.n, v.d)

ClosedValue(s, v) ==
    IF v.e # 0 /\ CharAt(s, v.e) = ")" THEN [v EXCEPT !.e = v.e + 1] ELSE NoValue(0)

FactorValue(s, i) ==
    IF CharAt(s, i) = "-" THEN Negated(FactorValue(s, i + 1))
    ELSE IF CharAt(s, i) = "(" THEN ClosedValue(s, ArithmeticValue(s, i + 1))
    ELSE LiteralValue(s, i)

Combined(op, a, b) ==
    IF b.e = 0 THEN NoValue(0)
    ELSE IF ~a.defined \/ ~b.defined THEN NoValue(b.e)
    ELSE IF op = "+" THEN ExactValue(b.e, a.n * b.d + b.n * a.d, a.d * b.d)
    ELSE IF op = "-" THEN ExactValue(b.e, a.n * b.d - b.n * a.d, a.d * b.d)
    ELSE IF op = "*" THEN ExactValue(b.e, a.n * b.n, a.d * b.d)
    ELSE IF b.n = 0 THEN NoValue(b.e)
    ELSE IF b.n < 0 THEN ExactValue(b.e, -(a.n * b.d), a.d * (-b.n))
    ELSE ExactValue(b.e, a.n * b.d, a.d * b.n)

TermRestValue(s, left) ==
    IF left.e # 0 /\ CharAt(s, left.e) \in {"*", "/"}
    THEN TermRestValue(s, Combined(s[left.e], left, FactorValue(s, left.e + 1)))
    ELSE left

TermValue(s, i) == TermRestValue(s, FactorValue(s, i))

ArithmeticRestValue(s, left) ==
    IF left.e # 0 /\ CharAt(s, left.e) \in {"+", "-"}
    THEN ArithmeticRestValue(s, Combined(s[left.e], left, TermValue(s, left.e + 1)))
    ELSE left

ArithmeticValue(s, i) == ArithmeticRestValue(s, TermValue(s, i))

\* valid arithmetic text: made only of digits, + - * /, points and
\* parentheses, an expression of the grammar as a whole, with a value
ValidArithmetic(s, v) == Clean(s) = s /\ v.e = Len(s) + 1 /\ v.defined

\* the exact value rounded half up to the configured precision, in cents
RoundedExactly(v) == MathRound(v.n * Factor, v.d)

CorrectlyParsed(s, v) == ValidArithmetic(s, v) => parsed = RoundedExactly(v)

\* C11 as stated: for every valid arithmetic text, parseExpression returns
\* the mathematically correct value rounded to the configured precision.
C11_ValidTextIsItsValue ==
    (pc = "parsed" /\ expression.type = "string") =>
        CorrectlyParsed(expression.s, ArithmeticValue(expression.s, 1))

\* a literal of two or more digits that starts with 0
LeadingZero(s) ==
    \E i \in 1..Len(s) :
        /\ s[i] = "0"
        /\ CharAt(s, i + 1) \in Digits
        /\ CharAt(s, i - 1) \notin Digits \cup {"."}

\* a minus sign directly after a minus sign
MinusAfterMinus(s) == \E i \in 1..Len(s) : s[i] = "-" /\ CharAt(s, i + 1) = "-"

\* C11, the texts the code does evaluate correctly: valid arithmetic text
\* with no literal that starts with a superfluous 0 and no minus sign
\* directly after a minus sign.
C11_PlainTextIsItsValue ==
    (pc = "parsed" /\ expression.type = "string"
        /\ ~LeadingZero(expression.s) /\ ~MinusAfterMinus(expression.s)) =>
        CorrectlyParsed(expression.s, ArithmeticValue(expression.s, 1))

\* C11, reached: a text of three operands and two levels of precedence is
\* parsed to its value ("2+2*2" is 6).
C11_PlainTextReached ==
    /\ pc = "parsed"
    /\ expression = Text(<<"2", "+", "2", "*", "2">>)
    /\ parsed = 6 * Factor

\* ------------------------------------------------------------------------
\* Properties of calculateWithTip
\* ------------------------------------------------------------------------
TipCalledNow == pc = "tipped"

\* what the tip amount of the call evaluates to, in cents
TipValue == parseExpression(tipAmount)

SessionMissing == session.isNull \/ session.membersAbsent

\* calculateSession on the same session
Plain == calculateSession(session)

\* the rise of member i's totalSpent over the plain calculation
RiseOfMember(plain, i) ==
    calculations.memberCalculations[i].totalSpent - plain.memberCalculations[i].totalSpent

\* the tip is in the total cost, within 0.01 for each member
TipInTotalCost(plain) ==
    /\ ~calculations.threw
    /\ Len(calculations.memberCalculations) = Len(session.members)
    /\ Abs(calculations.totals.totalCost - plain.totals.totalCost - TipValue)
           <= Len(session.members)

\* every member's totalSpent has risen by tip / memberCount, within 0.01
EqualTipAdded(plain) ==
    /\ TipInTotalCost(plain)
    /\ \A i \in 1..Len(session.members) :
           Abs(Len(session.members) * RiseOfMember(plain, i) - TipValue)
               <= Len(session.members)

\* every member's totalSpent has risen by (memberSpent / totalSpentAll) * tip,
\* within 0.01
ProportionalTipAdded(plain, totalSpentAll) ==
    /\ TipInTotalCost(plain)
    /\ \A i \in 1..Len(session.members) :
           Abs(totalSpentAll * RiseOfMember(plain, i)
                   - plain.memberCalculations[i].totalSpent * TipValue)
               <= totalSpentAll

\* C12 as stated: a tip T > 0 is added to the costs: totals.totalCost is
\* that of calculateSession plus T, with every member's totalSpent raised by
\* T / memberCount in equal mode and by its proportion of T in proportional
\* mode.
C12_TipAddedToCosts ==
    (TipCalledNow /\ TipValue > 0 /\ ~SessionMissing) =>
        /\ (tipDistribution = "equal" /\ Len(session.members) >= 1)
               => EqualTipAdded(Plain)
        /\ (tipDistribution = "proportional" /\ Plain.totals.totalCost > 0)
               => ProportionalTipAdded(Plain, Plain.totals.totalCost)

\* C12, what the code does: with a tip T > 0 every member's totalSpent and
\* the total cost are those of calculateSession; the tip items are counted
\* and priced 0.
C12_TipItemsCountForNothing ==
    (TipCalledNow /\ TipValue > 0 /\ ~calculations.threw) =>
        /\ calculations.totals.totalCost = Plain.totals.totalCost
        /\ \A i \in 1..Len(calculations.memberCalculations) : RiseOfMember(Plain, i) = 0

\* C13: with a tip amount that evaluates to 0 or less, calculateWithTip
\* returns exactly what calculateSession returns for the session, in every
\* distribution mode.
C13_NoTipIsCalculateSession ==
    (TipCalledNow /\ TipValue <= 0) => calculations = Plain

\* C13 witness: a tip of -1 in proportional mode on a session with costs.
C13_Witness ==
    /\ TipCalledNow
    /\ tipAmount = Text(<<"-", "1">>)
    /\ tipDistribution = "proportional"
    /\ Len(calculations.memberCalculations) = 2
    /\ calculations.totals.totalCost > 0

\* C14 as stated: calculateWithTip raises whenever the session or its member
\* list is missing, whatever the tip amount and the distribution mode.
C14_RaisesWhenSessionMissing ==
    (TipCalledNow /\ SessionMissing) => calculations.threw

\* C14, what the code does: with the session or its member list missing it
\* raises when the tip evaluates to more than 0 and the mode is equal or
\* proportional, and returns the empty calculation otherwise.
C14_RaisesOnlyWhenDistributing ==
    (TipCalledNow /\ SessionMissing) =>
        IF TipValue > 0 /\ tipDistribution \in {"equal", "proportional"}
        THEN calculations.threw
        ELSE calculations = getEmptyCalculation

\* C15: no call of calculateSession, calculateCustomSplit or calculateWithTip
\* changes the passed-in session: its member list, every member's items and
\* advance are after the call what they were before.
C15_SessionUnchanged == [][session' = session]_vars

\* C15 witness: after calculateWithTip with a tip of 0.03 in equal mode the
\* result counts one item more for every member than the session holds.
C15_Witness ==
    /\ TipCalledNow
    /\ TipValue = 3
    /\ tipDistribution = "equal"
    /\ Len(session.members) = 2
    /\ ~calculations.threw
    /\ \A i \in 1..Len(session.members) :
           calculations.memberCalculations[i].itemCount = Len(session.members[i].items) + 1

\* ------------------------------------------------------------------------
\* Properties of calculateSession on sessions without members and on
\* malformed prices
\* ------------------------------------------------------------------------
WithoutMembers == session.isNull \/ session.membersAbsent \/ Len(session.members) = 0

ZeroTotals(totals) ==
    /\ totals.totalCost = 0
    /\ totals.totalAdvance = 0
    /\ totals.memberCount = 0
    /\ totals.totalItems = 0
    /\ totals.averageSpent = 0
    /\ totals.costPerPerson = 0
    /\ totals.remainingBalance = 0

EmptySummary(summary) ==
    /\ summary.needToPay = <<>>
    /\ summary.getRefund = <<>>
    /\ summary.even = <<>>
    /\ summary.totalNeedToPay = 0
    /\ summary.totalRefund = 0
    /\ summary.balanceCheck = 0

\* C16: for a session that is absent, has no member list or has an empty
\* member list, calculateSession does not raise and returns no member
\* calculations, totals that are all 0 and a summary of empty lists and zero
\* sums.
C16_EmptySessionIsZero ==
    (pc \in {"calculated", "suggested"} /\ WithoutMembers) =>
        /\ ~calculations.threw
        /\ calculations.memberCalculations = <<>>
        /\ ZeroTotals(calculations.totals)
        /\ EmptySummary(calculations.summary)

\* C16 witness: scenario B, the session {members: []}, has been calculated.
C16_Witness ==
    /\ pc = "calculated"
    /\ session = Session(<<>>)
    /\ calculations.done
    /\ calculations.totals.costPerPerson = 0

\* the session with 0 typed in place of every price that satisfies the test
WithZeroFor(members, test(_)) ==
    Each([i \in 1..Len(members) |->
        [members[i] EXCEPT !.items =
            Each([j \in 1..Len(members[i].items) |->
                IF test(members[i].items[j].price)
                THEN [members[i].items[j] EXCEPT !.price = Text(<<"0">>)]
                ELSE members[i].items[j]])]])

\* the two results agree in the totals, the summary and every member's
\* amounts (the items listed keep the prices as typed)
SameAmounts(a, b) ==
    /\ a.threw = b.threw
    /\ a.totals = b.totals
    /\ a.summary = b.summary
    /\ Len(a.memberCalculations) = Len(b.memberCalculations)
    /\ \A i \in 1..Len(a.memberCalculations) :
           [a.memberCalculations[i] EXCEPT !.items = <<>>]
               = [b.memberCalculations[i] EXCEPT !.items = <<>>]

AsIfZero(test(_)) ==
    (pc = "calculated" /\ ~WithoutMembers) =>
        /\ ~calculations.threw
        /\ SameAmounts(calculations,
                       calculateSession(Session(WithZeroFor(session.members, test))))

\* C17 as stated: calculateSession does not raise, and its result is the one
\* it gives with price 0 in place of every malformed price: the item
\* contributes 0 and everything else is computed as before.
C17_MalformedPriceIsZero == AsIfZero(Malformed)

\* a price the code cannot evaluate: the text does not run as JavaScript or
\* its value is not a finite number
NotEvaluated(e) ==
    e.type = "string" /\ (RunFunction(Clean(e.s)).threw \/ NotFinite(RunFunction(Clean(e.s))))

\* C17, what the code does: every price it cannot evaluate counts as 0.
C17_UnevaluatedPriceIsZero == AsIfZero(NotEvaluated)

\* C17, reached: a member with the prices "2+*3" and 0.02 has spent 0.02.
C17_UnevaluatedReached ==
    /\ pc = "calculated"
    /\ Len(session.members) = 2
    /\ session.members[1].items
           = <<Item(Text(<<"2", "+", "*", "3">>)), Item(Text(<<"0", ".", "0", "2">>))>>
    /\ calculations.memberCalculations[1].totalSpent = 2

\* ------------------------------------------------------------------------
\* Properties of the cost distribution
\* ------------------------------------------------------------------------
Analysed == pc = "analysed"

Distribution == costAnalytics.distribution

\* the positive costs of the saved sessions
PositiveCosts == positiveCosts(sessions)

SumOfCounts == Sum([k \in 1..Len(Distribution) |-> Distribution[k].count])

\* the bucket percentages sum to 100 (each is count * 100 / number of costs)
PercentagesSumToHundred ==
    Sum([k \in 1..Len(Distribution) |-> Distribution[k].percentage.n])
        = 100 * Len(PositiveCosts)

\* the buckets are of equal width, each starts where the one before ends,
\* the first starts at min and the last ends at max
BucketsCoverRange ==
    /\ Len(Distribution) <= 10
    /\ Distribution[1].bucketMin.n = costAnalytics.min * Distribution[1].bucketMin.d
    /\ Distribution[Len(Distribution)].bucketMax.n
           = costAnalytics.max * Distribution[Len(Distribution)].bucketMax.d
    /\ \A k \in 1..Len(Distribution) :
           /\ Distribution[k].bucketMax.n - Distribution[k].bucketMin.n
                  = Distribution[1].bucketMax.n - Distribution[1].bucketMin.n
           /\ k > 1 => Distribution[k].bucketMin = Distribution[k - 1].bucketMax

\* C18 as stated: the distribution is at most 10 equal-width buckets that
\* cover [min, max]; every positive cost is counted in exactly one bucket,
\* so the counts sum to the number of positive costs and the percentages
\* to 100.
C18_EveryCostInOneBucket ==
    (Analysed /\ Len(PositiveCosts) > 0) =>
        /\ BucketsCoverRange
        /\ SumOfCounts = Len(PositiveCosts)
        /\ PercentagesSumToHundred

\* C18, what the code does: the buckets are as stated, and they count the
\* costs below the maximum; a cost equal to the maximum is in no bucket.
C18_MaximumInNoBucket ==
    (Analysed /\ Len(PositiveCosts) > 0) =>
        /\ BucketsCoverRange
        /\ SumOfCounts = Len(SelectSeq(PositiveCosts, LAMBDA c : c < costAnalytics.max))

\* C18, reached: eleven sessions give ten buckets.
C18_TenBucketsReached ==
    /\ Analysed
    /\ Len(PositiveCosts) = 11
    /\ Len(Distribution) = 10
    /\ SumOfCounts = 10

\* C19 as stated: without a positive cost the distribution is empty; when
\* all positive costs are equal it is a single bucket that holds all of
\* them.
C19_DegenerateDistribution ==
    Analysed =>
        /\ Len(PositiveCosts) = 0 => Distribution = <<>>
        /\ (Len(PositiveCosts) > 0 /\ costAnalytics.min = costAnalytics.max) =>
               /\ Len(Distribution) = 1
               /\ Distribution[1].count = Len(PositiveCosts)

\* C19, what the code does: without a positive cost the distribution is
\* empty; when all positive costs are equal there is a bucket for each of
\* them, up to 10, and every bucket is empty.
C19_EqualCostsInNoBucket ==
    Analysed =>
        /\ Len(PositiveCosts) = 0 => Distribution = <<>>
        /\ (Len(PositiveCosts) > 0 /\ costAnalytics.min = costAnalytics.max) =>
               /\ Len(Distribution) = Min(10, Len(PositiveCosts))
               /\ SumOfCounts = 0

\* C19, reached: no positive cost among three saved sessions.
C19_NoPositiveCostReached ==
    /\ Analysed
    /\ Len(sessions) = 3
    /\ Distribution = <<>>

\* ------------------------------------------------------------------------
\* Properties of roundNumber
\* ------------------------------------------------------------------------

\* a.m * 10^a.e <= b.m * 10^b.e for mantissas below 10^6
DecimalAtMost(a, b) ==
    IF Abs(a.e - b.e) <= 3
    THEN a.m * 10^(a.e - Min(a.e, b.e)) <= b.m * 10^(b.e - Min(a.e, b.e))
    ELSE IF a.e > b.e
    THEN a.m < 0 \/ (a.m = 0 /\ b.m >= 0)
    ELSE b.m > 0 \/ (b.m = 0 /\ a.m <= 0)

\* a <= b as JavaScript compares numbers: false when either is NaN
AtMost(a, b) ==
    IF a.k = "nan" \/ b.k = "nan" THEN FALSE
    ELSE IF a.k = "inf" THEN a.s < 0 \/ (b.k = "inf" /\ b.s > 0)
    ELSE IF b.k = "inf" THEN b.s > 0
    ELSE DecimalAtMost(a, b)

\* floor is at most the number, ceil at least the number
Bracketed ==
    /\ method = "floor" => AtMost(rounded, number)
    /\ method = "ceil" => AtMost(number, rounded)

PrecisionUsed == IF digits.absent THEN precision ELSE digits.p

\* 10^p and number * 10^p are finite
ProductIsFinite == PrecisionUsed <= 308 /\ ~Overflows(number.m, number.e + PrecisionUsed)

\* C20 as stated: for every finite v and every precision p >= 0,
\* roundNumber(v, p) under method floor is <= v, and v is <= roundNumber(v, p)
\* under method ceil.
C20_FloorBelowCeilAbove == pc = "rounded" => Bracketed

\* C20, in this model's arithmetic, where a product that stays in range is
\* exact: the inequalities hold whenever 10^p and v * 10^p are finite.
C20_BracketedWhenProductExact == (pc = "rounded" /\ ProductIsFinite) => Bracketed

\* C20, reached: 0.015 under floor with precision 2 is 0.01.
C20_FloorReached ==
    /\ pc = "rounded"
    /\ method = "floor"
    /\ number = Decimal(15, -3)
    /\ digits = Precision(2)
    /\ rounded = Decimal(1, -2)

\* C20, reached: 3e307 under floor with the default precision is Infinity.
C20_OverflowReached ==
    /\ pc = "rounded"
    /\ method = "floor"
    /\ number = Decimal(3, 307)
    /\ digits = NoPrecision
    /\ rounded = Infinity(1)

\* ------------------------------------------------------------------------
\* generatePaymentSuggestions, one iteration of its loop at a time, over
\* the numbers the engine really holds: IEEE 754 doubles, Infinity and NaN.
\*
\* An amount is [k, c, e]: for k = "num" the number c + e / 2^59 cents, that
\* is c/100 + e/(100 * 2^59) units of currency, with c whole and e small;
\* k = "inf" is Infinity, "-inf" is -Infinity and "nan" is NaN.  Every double between 2^-7
\* cent and 16 units is a whole multiple of 2^-59 units, and so is every
\* difference of two of them, so such an amount is a double exactly when
\* c * 2^59 + e is a multiple of 100 * 2^(E + 7), E its binary exponent.
\*
\* roundNumber turns a number of 1.8e306 or more into Infinity (number *
\* factor overflows), so parseExpression returns Infinity for a price or an
\* advance typed with 307 digits, and costPerPerson and advance can each be
\* Infinity.
\* ------------------------------------------------------------------------
MaxLoopMembers == 3
MaxIterations == 6

Double(c, e) == [k |-> "num", c |-> c, e |-> e]
InfiniteAmount == [k |-> "inf", c |-> 0, e |-> 0]
NegativeInfiniteAmount == [k |-> "-inf", c |-> 0, e |-> 0]
NaNAmount == [k |-> "nan", c |-> 0, e |-> 0]

\* 2^n modulo m
RECURSIVE PowerOfTwoMod(_, _)
PowerOfTwoMod(n, m) == IF n = 0 THEN 1 % m ELSE (2 * PowerOfTwoMod(n - 1, m)) % m

\* c + e / 2^59 cents is at least 2^E units (E in -7..4)
AtLeastPowerOfTwo(c, e, E) ==
    128 * c > 100 * 2^(E + 7) \/ (128 * c = 100 * 2^(E + 7) /\ e >= 0)

\* the binary exponent of c + e / 2^59 cents, c >= 1
ExponentOf2(c, e) ==
    CHOOSE E \in (-7)..3 : AtLeastPowerOfTwo(c, e, E) /\ ~AtLeastPowerOfTwo(c, e, E + 1)

\* round to nearest, ties to even: x is c * 2^59 + e modulo 2 * m, where m
\* is 100 * 2^59 times the spacing of the doubles at this exponent
nearestDouble(c, e, m, x) ==
    IF x % m = 0 THEN Double(c, e)
    ELSE IF 2 * (x % m) < m \/ (2 * (x % m) = m /\ x < m) THEN Double(c, e - (x % m))
    ELSE Double(c, e + (m - (x % m)))

\* the double nearest to c + e / 2^59 cents, c >= 1
roundToDoubleAt(c, e, m) ==
    nearestDouble(c, e, m, (((c * PowerOfTwoMod(59, 2 * m) + e) % (2 * m)) + 2 * m) % (2 * m))

\* the double nearest to c + e / 2^59 cents; an amount below a cent is one
roundToDouble(c, e) ==
    IF c = 0 THEN Double(0, e)
    ELSE IF c > 0 THEN roundToDoubleAt(c, e, 100 * 2^(ExponentOf2(c, e) + 7))
    ELSE LET r == roundToDoubleAt(-c, -e, 100 * 2^(ExponentOf2(-c, -e) + 7))
         IN Double(-r.c, -r.e)

\* the double of the decimal c/100: what Math.round(...) / factor yields
Cents(c) == roundToDouble(c, 0)

\* a < b
AmountLess(a, b) ==
    IF a.k = "nan" \/ b.k = "nan" THEN FALSE
    ELSE IF a.k = "-inf" THEN b.k # "-inf"
    ELSE IF a.k = "inf" \/ b.k = "-inf" THEN FALSE
    ELSE IF b.k = "inf" THEN TRUE
    ELSE a.c < b.c \/ (a.c = b.c /\ a.e < b.e)

\* a <= b
AmountAtMost(a, b) == a.k # "nan" /\ b.k # "nan" /\ ~AmountLess(b, a)

\* a - b
AmountMinus(a, b) ==
    IF a.k = "nan" \/ b.k = "nan" THEN NaNAmount
    ELSE IF a.k # "num" /\ a.k = b.k THEN NaNAmount
    ELSE IF a.k = "inf" \/ b.k = "-inf" THEN InfiniteAmount
    ELSE IF a.k = "-inf" \/ b.k = "inf" THEN NegativeInfiniteAmount
    ELSE roundToDouble(a.c - b.c, a.e - b.e)

\* Math.abs
MathAbs(v) ==
    IF v.k = "num" THEN (IF v.c < 0 \/ (v.c = 0 /\ v.e < 0) THEN Double(-v.c, -v.e) ELSE v)
    ELSE IF v.k = "-inf" THEN InfiniteAmount
    ELSE v

\* Math.min of two values
MathMinOf(a, b) ==
    IF a.k = "nan" \/ b.k = "nan" THEN NaNAmount
    ELSE IF AmountLess(b, a) THEN b ELSE a

\* roundNumber of an amount: Math.round(number * 100) is the whole number
\* of cents nearest to it, and the quotient the double of that decimal;
\* Infinity and NaN stay what they are
roundAmount(v) ==
    IF v.k = "num" THEN Cents(v.c) ELSE v

\* calculateFinalAmounts for one member: status and final amount from
\* costPerPerson and the member's advance
finalAmountOf(name, costPerPerson, advance) ==
    LET finalAmount == AmountMinus(costPerPerson, advance) IN
    IF AmountLess(MathAbs(finalAmount), Cents(1))
    THEN [name |-> name, advance |-> advance, amountPerPerson |-> roundAmount(costPerPerson),
          status |-> "even", finalAmount |-> roundAmount(Cents(0))]
    ELSE IF AmountLess(Cents(0), finalAmount)
    THEN [name |-> name, advance |-> advance, amountPerPerson |-> roundAmount(costPerPerson),
          status |-> "needs_to_pay", finalAmount |-> roundAmount(finalAmount)]
    ELSE [name |-> name, advance |-> advance, amountPerPerson |-> roundAmount(costPerPerson),
          status |-> "gets_refund", finalAmount |-> roundAmount(MathAbs(finalAmount))]

\* .sort((a, b) => b.amount - a.amount): a stable sort; a comparison that
\* yields NaN counts as 0.  e goes before the first entry it compares
\* below zero with.
RECURSIVE InsertEntry(_, _)
InsertEntry(sorted, e) ==
    IF sorted = <<>> THEN <<e>>
    ELSE IF AmountLess(AmountMinus(Head(sorted).amount, e.amount), Cents(0))
    THEN <<e>> \o sorted
    ELSE <<Head(sorted)>> \o InsertEntry(Tail(sorted), e)

RECURSIVE SortEntries(_, _)
SortEntries(entries, i) ==
    IF i = 0 THEN <<>> ELSE InsertEntry(SortEntries(entries, i - 1), entries[i])

\* costPerPerson and advances of the sessions: 2.00 or Infinity per
\* person; advances of 0, 0.99, 1.99, 2.50, 3.00 and Infinity
LoopCosts == {Cents(200), InfiniteAmount}
LoopAdvances == {Cents(0), Cents(99), Cents(199), Cents(250), Cents(300), InfiniteAmount}

InitLoop ==
    \E n \in 0..MaxLoopMembers : \E costPerPerson \in LoopCosts :
    \E advance \in [1..n -> LoopAdvances] :
        /\ pc = "input"
        /\ session = [costPerPerson |-> costPerPerson, advances |-> Each(advance)]
        /\ percentages = NoPercentages
        /\ calculations = NoResult
        /\ suggestions = <<>>
        /\ expression = Null
        /\ parsed = 0
        /\ NoTip /\ NoAnalytics /\ NoRounding /\ NoOther

\* calculateSession, from the costPerPerson and the advances it has found:
\* calculateFinalAmounts
CalculateFinalAmounts ==
    /\ pc = "input"
    /\ calculations' =
          [threw |-> FALSE,
           memberCalculations |->
               Each([i \in 1..Len(session.advances) |->
                        finalAmountOf(MemberName(i), session.costPerPerson,
                                      session.advances[i])])]
    /\ pc' = "calculated"
    /\ UNCHANGED <<session, percentages, suggestions, expression, parsed>>
    /\ UNCHANGED <<tipVars, analyticsVars, roundVars, otherVars>>

\* the filters, maps and sorts before the loop
StartMatching ==
    /\ pc = "calculated"
    /\ LET pay == EntriesWithStatus(calculations.memberCalculations, "needs_to_pay")
           refund == EntriesWithStatus(calculations.memberCalculations, "gets_refund")
       IN /\ needToPay' = SortEntries(pay, Len(pay))
          /\ getRefund' = SortEntries(refund, Len(refund))
    /\ payIndex' = 0
    /\ refundIndex' = 0
    /\ suggestions' = <<>>
    /\ iterations' = 0
    /\ pc' = "matching"
    /\ UNCHANGED <<session, percentages, calculations, expression, parsed>>
    /\ UNCHANGED <<tipVars, analyticsVars, roundVars, memberVars, storeVars, quotaVars, appVars>>

\* while (payIndex < needToPay.length && refundIndex < getRefund.length)
LoopRuns == payIndex < Len(needToPay) /\ refundIndex < Len(getRefund)

\* what one iteration leaves of the payer and the receiver
iterationOf(payer, receiver, transferAmount) ==
    [pushed |-> AmountLess(Cents(1), transferAmount),
     amount |-> roundAmount(transferAmount),
     payerLeft |-> AmountMinus(payer.amount, transferAmount),
     receiverLeft |-> AmountMinus(receiver.amount, transferAmount)]

\* one run of the body of the loop
MatchIteration ==
    /\ pc = "matching"
    /\ LoopRuns
    /\ iterations < MaxIterations
    /\ LET payer == needToPay[payIndex + 1]
           receiver == getRefund[refundIndex + 1]
           it == iterationOf(payer, receiver, MathMinOf(payer.amount, receiver.amount))
       IN /\ suggestions' =
                IF it.pushed
                THEN Append(suggestions, [from |-> payer.name, to |-> receiver.name,
                                          amount |-> it.amount])
                ELSE suggestions
          /\ needToPay' = [needToPay EXCEPT ![payIndex + 1].amount = it.payerLeft]
          /\ getRefund' = [getRefund EXCEPT ![refundIndex + 1].amount = it.receiverLeft]
          /\ payIndex' = IF AmountAtMost(it.payerLeft, Cents(1)) THEN payIndex + 1 ELSE payIndex
          /\ refundIndex' =
                IF AmountAtMost(it.receiverLeft, Cents(1)) THEN refundIndex + 1 ELSE refundIndex
    /\ iterations' = iterations + 1
    /\ UNCHANGED <<pc, session, percentages, calculations, expression, parsed>>
    /\ UNCHANGED <<tipVars, analyticsVars, roundVars, memberVars, storeVars, quotaVars, appVars>>

\* the loop condition fails: return suggestions
ReturnSuggestions ==
    /\ pc = "matching"
    /\ ~LoopRuns
    /\ pc' = "suggested"
    /\ UNCHANGED <<session, percentages, calculations, suggestions, expression, parsed>>
    /\ UNCHANGED <<tipVars, analyticsVars, roundVars, otherVars>>

NextLoop == CalculateFinalAmounts \/ StartMatching \/ MatchIteration \/ ReturnSuggestions
SpecLoop == InitLoop /\ [][NextLoop]_vars

\* ------------------------------------------------------------------------
\* Termination of generatePaymentSuggestions
\* ------------------------------------------------------------------------
\* the entries the loop started from
PayerCount == Len(EntriesWithStatus(calculations.memberCalculations, "needs_to_pay"))
ReceiverCount == Len(EntriesWithStatus(calculations.memberCalculations, "gets_refund"))

\* C23: the loop of generatePaymentSuggestions runs at most
\* |payers| + |receivers| - 1 times (not at all when a side is empty), and
\* emits at most that many transfers.
C23_LoopBound ==
    pc \in {"matching", "suggested"} =>
        /\ iterations <= Max(0, PayerCount + ReceiverCount - 1)
        /\ Len(suggestions) <= Max(0, PayerCount + ReceiverCount - 1)

\* C23: every iteration advances at least one of the two indices.
C23_EveryIterationAdvances ==
    [][iterations' = iterations + 1 =>
           payIndex' + refundIndex' > payIndex + refundIndex]_vars

\* C23: the bound holds whenever every amount is finite.
AllFinite ==
    pc # "input" /\ \A i \in 1..Len(calculations.memberCalculations) :
        calculations.memberCalculations[i].finalAmount.k = "num"
C23_LoopBoundWhenFinite == AllFinite => C23_LoopBound

\* a loop over finite amounts that ran as often as the bound allows
C23_BoundReached ==
    /\ pc = "suggested"
    /\ AllFinite
    /\ PayerCount + ReceiverCount = MaxLoopMembers
    /\ iterations = MaxLoopMembers - 1

\* ------------------------------------------------------------------------
\* The suggested transfers against the members' balances
\* ------------------------------------------------------------------------
LoopMembers(status) ==
    SelectSeq(calculations.memberCalculations, LAMBDA m : m.status = status)

NamesOf(members) == {members[i].name : i \in 1..Len(members)}

\* whole cents of the transfers chosen by test
CentsOfTransfers(test(_)) ==
    LET chosen == SelectSeq(suggestions, test)
    IN Sum([i \in 1..Len(chosen) |-> chosen[i].amount.c])

\* every transfer goes from a needs_to_pay member to a gets_refund member
TransfersFromPayersToReceivers ==
    \A i \in 1..Len(suggestions) :
        /\ suggestions[i].from \in NamesOf(LoopMembers("needs_to_pay"))
        /\ suggestions[i].to \in NamesOf(LoopMembers("gets_refund"))

\* no member pays more than the final amount owed, or receives more than
\* the final amount due, to the cent
TransfersWithinFinalAmounts ==
    /\ \A i \in 1..Len(suggestions) : suggestions[i].amount.k = "num"
    /\ LET ms == LoopMembers("needs_to_pay") IN
       \A i \in 1..Len(ms) :
           ms[i].finalAmount.k = "num" =>
               CentsOfTransfers(LAMBDA t : t.from = ms[i].name) <= ms[i].finalAmount.c
    /\ LET ms == LoopMembers("gets_refund") IN
       \A i \in 1..Len(ms) :
           ms[i].finalAmount.k = "num" =>
               CentsOfTransfers(LAMBDA t : t.to = ms[i].name) <= ms[i].finalAmount.c

\* C26: every suggested transfer goes from a needs_to_pay member to a
\* gets_refund member and has an amount above 0.01; no member pays more than
\* the final amount owed or receives more than the final amount due.
C26_TransfersWithinBalances ==
    pc = "suggested" =>
        /\ TransfersFromPayersToReceivers
        /\ \A i \in 1..Len(suggestions) : AmountLess(Cents(1), suggestions[i].amount)
        /\ TransfersWithinFinalAmounts

\* C26 with amounts of at least 0.01 in place of amounts above 0.01
C26_TransfersOfAtLeastHundredth ==
    pc = "suggested" =>
        /\ TransfersFromPayersToReceivers
        /\ \A i \in 1..Len(suggestions) : AmountAtMost(Cents(1), suggestions[i].amount)
        /\ TransfersWithinFinalAmounts

\* several transfers that use up what a payer owes
C26_PayerUsedUp ==
    /\ pc = "suggested"
    /\ Len(suggestions) >= 2
    /\ \E i \in 1..Len(calculations.memberCalculations) :
          LET m == calculations.memberCalculations[i] IN
          /\ m.status = "needs_to_pay"
          /\ m.finalAmount.k = "num"
          /\ CentsOfTransfers(LAMBDA t : t.from = m.name) = m.finalAmount.c

\* ------------------------------------------------------------------------
\* Status and final amount: calculateSession and calculateCustomSplit called
\* on the same sessions
\* ------------------------------------------------------------------------
MaxStatusMembers == 3

\* members who bought an item of 0.02, advanced 0.01, or bought an item of
\* 0.01, and advanced nothing else
StatusShapes ==
    {[items |-> <<Item(Text(<<"0", ".", "0", "2">>))>>, advance |-> Number(0, 1)],
     [items |-> <<>>, advance |-> Text(<<"0", ".", "0", "1">>)],
     [items |-> <<Item(Text(<<"0", ".", "0", "1">>))>>, advance |-> Number(0, 1)]}

InitStatus ==
    \E n \in 0..MaxStatusMembers : \E f \in [1..n -> StatusShapes] : InitWith(SessionOf(n, f))
NextStatus == CalculateSessionAgain \/ CalculateCustomSplitAgain
SpecStatus == InitStatus /\ [][NextStatus]_vars

StatusCalculated == pc \in {"calculated", "split"} /\ ~calculations.threw

\* d = amountPerPerson - advance of member m as the rational n/d cents:
\* costPerPerson less advance after calculateSession, totalCost *
\* percentage / 100 less advance after calculateCustomSplit
ShareLessAdvance(m) ==
    IF pc = "split"
    THEN LET percentage == PercentageOf(percentages, m.id)
         IN [n |-> calculations.totals.totalCost * percentage.n
                      - m.advance * percentage.d * 100,
             d |-> percentage.d * 100]
    ELSE [n |-> calculations.totals.costPerPerson - m.advance, d |-> 1]

\* the status and final amount the rules give for the difference n/d cents
StatusRules(m, n, d) ==
    /\ (m.status = "even" /\ m.finalAmount = 0) <=> Abs(n) < d
    /\ m.status = "even" <=> Abs(n) < d
    /\ (m.status = "needs_to_pay" /\ m.finalAmount = roundNumber(n, Factor * d)) <=> n >= d
    /\ m.status = "needs_to_pay" <=> n >= d
    /\ (m.status = "gets_refund" /\ m.finalAmount = roundNumber(Abs(n), Factor * d)) <=> n <= -d
    /\ m.status = "gets_refund" <=> n <= -d
    /\ m.finalAmount >= 0
    /\ m.finalAmount = 0 => m.status = "even"

\* C24: every member of a result has status even and final amount 0 exactly
\* when |d| < 0.01, needs_to_pay and final amount d rounded exactly when
\* d >= 0.01, gets_refund and final amount |d| rounded exactly when
\* d <= -0.01; the final amount is never negative and 0 only when even.
\* Here for the results of calculateSession with costPerPerson and advances
\* that may be Infinity.
C24_StatusFollowsAnyDifference ==
    pc # "input" =>
    \A i \in 1..Len(calculations.memberCalculations) :
        LET m == calculations.memberCalculations[i]
            d == AmountMinus(m.amountPerPerson, m.advance)
        IN /\ (m.status = "even" /\ m.finalAmount = Cents(0))
                  <=> AmountLess(MathAbs(d), Cents(1))
           /\ (m.status = "needs_to_pay" /\ m.finalAmount = roundAmount(d))
                  <=> AmountAtMost(Cents(1), d)
           /\ (m.status = "gets_refund" /\ m.finalAmount = roundAmount(MathAbs(d)))
                  <=> AmountAtMost(d, Cents(-1))
           /\ ~AmountLess(m.finalAmount, Cents(0))
           /\ m.finalAmount = Cents(0) => m.status = "even"

\* C24 for sessions whose amounts are finite: calculateSession and
\* calculateCustomSplit give the status and final amount the rules name.
C24_StatusFollowsDifference ==
    StatusCalculated =>
        \A i \in 1..Len(calculations.memberCalculations) :
            LET m == calculations.memberCalculations[i]
            IN StatusRules(m, ShareLessAdvance(m).n, ShareLessAdvance(m).d)

\* a custom split in which one member owes exactly 0.01, one is due exactly
\* 0.01 and one is even
C24_BoundariesReached ==
    /\ pc = "split"
    /\ ~calculations.threw
    /\ \E i, j, k \in 1..Len(calculations.memberCalculations) :
          LET m == calculations.memberCalculations IN
          /\ m[i].status = "needs_to_pay" /\ m[i].finalAmount = 1
          /\ ShareLessAdvance(m[i]).n = ShareLessAdvance(m[i]).d
          /\ m[j].status = "gets_refund" /\ m[j].finalAmount = 1
          /\ m[k].status = "even"

\* ------------------------------------------------------------------------
\* A proportional tip on a session in which nothing was spent
\* ------------------------------------------------------------------------
\* calculateWithTip was called in proportional mode with a tip above 0 on a
\* session whose members spent nothing
ProportionalTipOnNoSpending ==
    /\ TipCalledNow
    /\ tipDistribution = "proportional"
    /\ TipValue > 0
    /\ ~SessionMissing
    /\ totalCostOf(calculateMemberCosts(session.members)) = 0

\* C25: a proportional tip above 0 on a session whose members spent nothing
\* adds no item to any member and returns what calculateSession returns for
\* the session, without raising.
C25_NoTipWhenNothingSpent ==
    ProportionalTipOnNoSpending =>
        /\ ~calculations.threw
        /\ calculations = Plain
        /\ \A i \in 1..Len(session.members) :
              calculations.memberCalculations[i].itemCount = Len(session.members[i].items)

\* C25 witness: a tip of 0.03 in proportional mode on two members who bought
\* nothing
C25_Witness ==
    /\ ProportionalTipOnNoSpending
    /\ Len(session.members) = 2
    /\ Len(calculations.memberCalculations) = 2

\* ------------------------------------------------------------------------
\* The member list of the page (ChiaCheckApp in src/js/app.js).  A name is a
\* sequence of characters; the page starts from initializeSession, whose
\* session has no members.
\* ------------------------------------------------------------------------
MaxNewMembers == 3

\* what the user types into the member-name input: nothing, a blank, and
\* the names a, b and ab in either case, with or without blanks around them
TypedNames ==
    {<<>>, <<" ">>, <<"a">>, <<"A">>, <<" ", "a">>, <<"b">>, <<"B", " ">>,
     <<"a", "b">>, <<"A", "B">>}

\* String.prototype.trim
RECURSIVE trimStart(_)
trimStart(s) == IF s # <<>> /\ Head(s) = " " THEN trimStart(Tail(s)) ELSE s
RECURSIVE trimEnd(_)
trimEnd(s) ==
    IF s # <<>> /\ s[Len(s)] = " " THEN trimEnd(SubSeq(s, 1, Len(s) - 1)) ELSE s
trim(s) == trimEnd(trimStart(s))

\* String.prototype.toLowerCase
toLowerCase(s) ==
    [i \in 1..Len(s) |-> IF s[i] = "A" THEN "a" ELSE IF s[i] = "B" THEN "b" ELSE s[i]]

\* findIndex(m => m.id === id), 0-based; -1 when there is none
RECURSIVE findIndexFrom(_, _, _)
findIndexFrom(list, id, i) ==
    IF i > Len(list) THEN -1
    ELSE IF list[i].id = id THEN i - 1
    ELSE findIndexFrom(list, id, i + 1)
findIndex(list, id) == findIndexFrom(list, id, 1)

\* a variant that compares the names as they are
existingMemberExact(list, name) == \E i \in 1..Len(list) : list[i].name = name

\* members.find(m => m.name.toLowerCase() === name.toLowerCase()) finds one
existingMember(list, name) ==
    \E i \in 1..Len(list) : toLowerCase(list[i].name) = toLowerCase(name)

\* list.splice(index, 1), index 0-based
spliceOut(list, index) == SubSeq(list, 1, index) \o SubSeq(list, index + 2, Len(list))

\* list.splice(index, 0, e): past the end, e goes last
spliceIn(list, index, e) ==
    IF index >= Len(list) THEN Append(list, e)
    ELSE SubSeq(list, 1, index) \o <<e>> \o SubSeq(list, index + 1, Len(list))

\* the member list after addMember with the trimmed name
membersAdded(list, name, id) ==
    IF name = <<>> \/ existingMember(list, name) THEN list
    ELSE Append(list, [id |-> id, name |-> name])

InitMembers ==
    /\ pc = "input"
    /\ session = NullSession
    /\ percentages = NoPercentages
    /\ calculations = NoResult
    /\ suggestions = <<>>
    /\ expression = Null
    /\ parsed = 0
    /\ NoTip /\ NoAnalytics /\ NoRounding /\ NoOther

\* what the engine and the other operations hold while the list is edited
MembersFrame ==
    /\ UNCHANGED engineVars
    /\ UNCHANGED <<tipVars, analyticsVars, roundVars, loopVars, storeVars, quotaVars, appVars>>

\* app.addMember() with typed in the member-name input
AddMember ==
    \E typed \in TypedNames :
        /\ membersAdded(currentMembers, trim(typed), nextId) # currentMembers
              => nextId <= MaxNewMembers
        /\ currentMembers' = membersAdded(currentMembers, trim(typed), nextId)
        /\ nextId' = IF currentMembers' = currentMembers THEN nextId ELSE nextId + 1
        /\ called' = [op |-> "addMember", typed |-> typed, before |-> currentMembers]
        /\ MembersFrame

\* app.removeMember(memberId); the user answers the confirm dialog
RemoveMember ==
    \E memberId \in 1..MaxNewMembers : \E confirmed \in BOOLEAN :
        /\ currentMembers' =
              IF findIndex(currentMembers, memberId) = -1 \/ ~confirmed THEN currentMembers
              ELSE spliceOut(currentMembers, findIndex(currentMembers, memberId))
        /\ called' = [op |-> "removeMember", typed |-> <<>>, before |-> <<>>]
        /\ UNCHANGED nextId
        /\ MembersFrame

\* app.reorderMembers(draggedId, targetId)
ReorderMembers ==
    \E draggedId \in 1..MaxNewMembers : \E targetId \in 1..MaxNewMembers :
        /\ currentMembers' =
              IF findIndex(currentMembers, draggedId) = -1
                 \/ findIndex(currentMembers, targetId) = -1
              THEN currentMembers
              ELSE spliceIn(spliceOut(currentMembers, findIndex(currentMembers, draggedId)),
                            findIndex(currentMembers, targetId),
                            currentMembers[findIndex(currentMembers, draggedId) + 1])
        /\ called' = [op |-> "reorderMembers", typed |-> <<>>, before |-> <<>>]
        /\ UNCHANGED nextId
        /\ MembersFrame

NextMembers == AddMember \/ RemoveMember \/ ReorderMembers
SpecMembers == InitMembers /\ [][NextMembers]_vars

\* no two members have names that are equal once trimmed and lower-cased
NoDuplicateNames ==
    \A i, j \in 1..Len(currentMembers) :
        i # j => toLowerCase(trim(currentMembers[i].name))
                    # toLowerCase(trim(currentMembers[j].name))

\* the last operation was an addMember with a blank name or with the name,
\* ignoring case, of a member of the list
AddRejected ==
    /\ called.op = "addMember"
    /\ \/ trim(called.typed) = <<>>
       \/ \E i \in 1..Len(called.before) :
             toLowerCase(called.before[i].name) = toLowerCase(trim(called.typed))

\* C21: after any sequence of addMember, removeMember and reorderMembers on
\* a new session no two members have names equal ignoring case, and an
\* addMember with a blank or already present name leaves the list as it
\* was.
C21_NoDuplicateMembers ==
    /\ NoDuplicateNames
    /\ AddRejected => currentMembers = called.before

\* C21 witness: "A" was typed while a member "a", added first, stood second
\* in a list of three after a reorder
C21_Witness ==
    /\ AddRejected
    /\ called.typed = <<"A">>
    /\ Len(currentMembers) = 3
    /\ currentMembers[2].name = <<"a">>
    /\ currentMembers[1].id > currentMembers[2].id

\* ------------------------------------------------------------------------
\* StorageManager (src/js/storage.js): the stored sessions, the recent list
\* and the suggestions.  A session is known by its id; the sessions with an
\* odd id have the member Alice, the others the member Bob.  Every write
\* succeeds here.
\* ------------------------------------------------------------------------
MAX_SESSIONS == 50
MAX_RECENT == 10
MaxSessionIds == 51

\* the session the user saves again or deletes: the first one saved
ReturnedTo == {1}

memberOfSession(id) == IF id % 2 = 1 THEN "Alice" ELSE "Bob"

Has(list, id) == \E i \in 1..Len(list) : list[i] = id
Without(list, id) == SelectSeq(list, LAMBDA x : x # id)

\* list.splice(max) when list.length > max
Limited(list, max) == IF Len(list) > max THEN SubSeq(list, 1, max) ELSE list

\* saveSession: the list written to chiacheck_sessions
sessionsSaved(list, id) ==
    Limited(IF Has(list, id) THEN list ELSE <<id>> \o list, MAX_SESSIONS)

\* a variant of addToRecent that leaves an entry already there where it is
recentAddedOnce(list, id) ==
    IF Has(list, id) THEN list ELSE Limited(<<id>> \o list, MAX_RECENT)

\* addToRecent: the list written to chiacheck_recent
recentAdded(list, id) == Limited(<<id>> \o Without(list, id), MAX_RECENT)

\* updateSuggestions: the member names written to chiacheck_suggestions
suggestionsUpdated(names, id) ==
    LET pushed == IF Has(names, memberOfSession(id)) THEN names
                  ELSE Append(names, memberOfSession(id))
    IN IF Len(pushed) > 50 THEN SubSeq(pushed, Len(pushed) - 49, Len(pushed)) ELSE pushed

InitStorage ==
    /\ pc = "input"
    /\ session = NullSession
    /\ percentages = NoPercentages
    /\ calculations = NoResult
    /\ suggestions = <<>>
    /\ expression = Null
    /\ parsed = 0
    /\ NoTip /\ NoAnalytics /\ NoRounding /\ NoOther

StorageFrame ==
    /\ UNCHANGED engineVars
    /\ UNCHANGED <<tipVars, analyticsVars, roundVars, loopVars, memberVars, quotaVars, appVars>>

\* storageManager.saveSession(session) of a new session or of one the user
\* returns to
SaveSession ==
    \E id \in ({nextSession} \cap 1..MaxSessionIds) \cup {i \in ReturnedTo : i < nextSession} :
        /\ stored' = sessionsSaved(stored, id)
        /\ recent' = recentAdded(recent, id)
        /\ suggested' = suggestionsUpdated(suggested, id)
        /\ returned' = TRUE
        /\ order' = <<id>> \o Without(order, id)
        /\ nextSession' = IF id = nextSession THEN nextSession + 1 ELSE nextSession
        /\ StorageFrame

\* storageManager.deleteSession(sessionId)
DeleteSession ==
    \E sessionId \in ReturnedTo :
        /\ stored' = Without(stored, sessionId)
        /\ recent' = Without(recent, sessionId)
        /\ returned' = TRUE
        /\ UNCHANGED <<suggested, order, nextSession>>
        /\ StorageFrame

NextStorage == SaveSession \/ DeleteSession
SpecStorage == InitStorage /\ [][NextStorage]_vars

Distinct(list) == \A i, j \in 1..Len(list) : i # j => list[i] # list[j]

\* where id stands in list; 0 when it is not there
RECURSIVE PlaceFrom(_, _, _)
PlaceFrom(list, id, i) ==
    IF i > Len(list) THEN 0 ELSE IF list[i] = id THEN i ELSE PlaceFrom(list, id, i + 1)
Place(list, id) == PlaceFrom(list, id, 1)

\* C27: every entry of the recent list is the id of a stored session.
C27_RecentAreStored == \A i \in 1..Len(recent) : Has(stored, recent[i])

MaxQuotaSessions == 3

\* how the write of the list of sessions goes: [first, cleaned, retried].
\* first is what localStorage.setItem does in setItem; after a
\* QuotaExceededError, cleaned tells whether cleanup(true) wrote its
\* filtered list and retried whether the second localStorage.setItem, in
\* handleQuotaExceeded, went through
WriteOutcomes ==
    {[first |-> "ok", cleaned |-> FALSE, retried |-> FALSE],
     [first |-> "error", cleaned |-> FALSE, retried |-> FALSE]}
    \cup [first : {"quota"}, cleaned : BOOLEAN, retried : BOOLEAN]

\* cleanup(true): the stored sessions less those created over six months
\* ago, when that list was written
cleanedUp(list, old, outcome) ==
    IF outcome.cleaned THEN SelectSeq(list, LAMBDA id : id \notin old) ELSE list

\* what setItem returns
setItemReturned(outcome) == outcome.first = "ok"

\* chiacheck_sessions after setItem(SESSIONS, value)
sessionsSet(list, value, old, outcome) ==
    IF outcome.first = "ok" THEN value
    ELSE IF outcome.first = "error" THEN list
    ELSE IF outcome.retried THEN value
    ELSE cleanedUp(list, old, outcome)

QuotaFrame ==
    /\ UNCHANGED engineVars
    /\ UNCHANGED <<tipVars, analyticsVars, roundVars, loopVars, memberVars, appVars>>

Lists(op) == [op |-> op, stored |-> stored, recent |-> recent, suggested |-> suggested]

\* storageManager.saveSession(session)
SaveSessionWithin ==
    \E id \in ({nextSession} \cap 1..MaxQuotaSessions) \cup {i \in ReturnedTo : i < nextSession} :
    \E outcome \in WriteOutcomes :
        /\ stored' = sessionsSet(stored, sessionsSaved(stored, id), aged, outcome)
        /\ returned' = setItemReturned(outcome)
        /\ recent' = IF setItemReturned(outcome) THEN recentAdded(recent, id) ELSE recent
        /\ suggested' = IF setItemReturned(outcome) THEN suggestionsUpdated(suggested, id)
                        ELSE suggested
        /\ order' = IF setItemReturned(outcome) THEN <<id>> \o Without(order, id) ELSE order
        /\ nextSession' = IF id = nextSession THEN nextSession + 1 ELSE nextSession
        /\ written' = (outcome.first = "ok" \/ (outcome.first = "quota" /\ outcome.retried))
        /\ before' = Lists("saveSession")
        /\ UNCHANGED aged
        /\ QuotaFrame

\* storageManager.deleteSession(sessionId), its writes succeeding
DeleteSessionWithin ==
    \E sessionId \in ReturnedTo :
        /\ stored' = Without(stored, sessionId)
        /\ recent' = Without(recent, sessionId)
        /\ returned' = TRUE
        /\ written' = FALSE
        /\ before' = Lists("deleteSession")
        /\ UNCHANGED <<suggested, order, nextSession, aged>>
        /\ QuotaFrame

\* six months go by: every stored session is now older than that
SixMonthsPass ==
    /\ aged' = aged \cup {stored[i] : i \in 1..Len(stored)}
    /\ aged' # aged
    /\ UNCHANGED <<storeVars, before, written>>
    /\ QuotaFrame

NextQuota == SaveSessionWithin \/ DeleteSessionWithin \/ SixMonthsPass
SpecQuota == InitStorage /\ [][NextQuota]_vars

SaveSessionCalled == before.op = "saveSession"
ListsAsBefore ==
    stored = before.stored /\ recent = before.recent /\ suggested = before.suggested

\* C30: saveSession returns true exactly when the session has been written
\* to the stored list, and when it returns false the stored list, the recent
\* list and the suggestions are what they were.
C30_TrueExactlyWhenWritten ==
    SaveSessionCalled =>
        /\ returned <=> written
        /\ ~returned => ListsAsBefore

\* a save that returned false and left the session in the stored list
C30_WrittenButFalse ==
    /\ SaveSessionCalled
    /\ ~returned
    /\ written
    /\ stored # before.stored

\* ------------------------------------------------------------------------
\* The page and its timers: the current session is edited, recalculated,
\* saved by hand and saved by the AutoSaveManager.  Auto-save is enabled (the
\* default setting) and every write to the store succeeds.
\* ------------------------------------------------------------------------
MaxAppMembers == 2

\* what the user types into an advance field
AdvanceValues == {Text(<<"1">>), Text(<<"2", "5">>)}

\* an id no member of the list has
FreshId(list) ==
    CHOOSE i \in 1..(Len(list) + 1) : \A j \in 1..Len(list) : list[j].id # i

\* the fields initializeSession and calculateSessionTotals both give
TotalsShown(totals) ==
    [totalCost |-> totals.totalCost, totalAdvance |-> totals.totalAdvance,
     memberCount |-> totals.memberCount, costPerPerson |-> totals.costPerPerson,
     remainingBalance |-> totals.remainingBalance]

\* recalculate: currentSession.totals = calculateSession(...).totals, which
\* calculateSession takes from calculateSessionTotals and hands on as it is
recalculated(list) ==
    IF Len(list) = 0 THEN getEmptyCalculation.totals
    ELSE calculateSessionTotals(calculateMemberCosts(list))

\* JSON.stringify of the session as storageManager.saveSession stores it
stringified(list, totals) == [saved |-> TRUE, members |-> list, totals |-> totals]

InitApp ==
    /\ pc = "input"
    /\ session = NullSession
    /\ percentages = NoPercentages
    /\ calculations = NoResult
    /\ suggestions = <<>>
    /\ expression = Null
    /\ parsed = 0
    /\ NoTip /\ NoAnalytics /\ NoRounding /\ NoOther

AppFrame ==
    /\ UNCHANGED engineVars
    /\ UNCHANGED <<tipVars, analyticsVars, roundVars>>
    /\ UNCHANGED <<loopVars, memberVars, storeVars, quotaVars>>

\* addMember once the name is accepted: push, then recalculate at once.
\* The name was typed into the field first: those input events set the
\* save timer
PushMember ==
    /\ Len(sessionMembers) < MaxAppMembers
    /\ sessionMembers' =
           Append(sessionMembers, Member(FreshId(sessionMembers), <<>>, Number(0, 1)))
    /\ sessionTotals' = recalculated(sessionMembers')
    /\ saveTimeout' = TRUE
    /\ UNCHANGED <<persisted, recalculateTimeout>>
    /\ AppFrame

\* removeMember, confirmed: splice, then recalculate at once.  The click
\* is no input or change event: the auto-save listener does not run
SpliceMember ==
    \E memberIndex \in 1..Len(sessionMembers) :
        /\ sessionMembers' = spliceOut(sessionMembers, memberIndex)
        /\ sessionTotals' = recalculated(sessionMembers')
        /\ UNCHANGED <<persisted, recalculateTimeout, saveTimeout>>
        /\ AppFrame

\* an input event of an advance field: updateMemberAdvance sets the
\* advance and debouncedRecalculate sets its timer; the document listener
\* of the AutoSaveManager sets the save timer
UpdateMemberAdvance ==
    \E i \in 1..Len(sessionMembers) : \E value \in AdvanceValues :
        /\ sessionMembers[i].advance # value
        /\ sessionMembers' = [sessionMembers EXCEPT ![i].advance = value]
        /\ recalculateTimeout' = TRUE
        /\ saveTimeout' = TRUE
        /\ UNCHANGED <<sessionTotals, persisted>>
        /\ AppFrame

\* the 500 ms timer of debouncedRecalculate fires
RecalculateFires ==
    /\ recalculateTimeout
    /\ recalculateTimeout' = FALSE
    /\ sessionTotals' = recalculated(sessionMembers)
    /\ UNCHANGED <<sessionMembers, persisted, saveTimeout>>
    /\ AppFrame

\* the 2 s timer of the auto-save listener fires: saveCurrentSession.  The
\* input event that set the recalculation timer set this one as well, to
\* a later time, so this one fires after it
AutoSaveFires ==
    /\ saveTimeout
    /\ ~recalculateTimeout
    /\ saveTimeout' = FALSE
    /\ persisted' = stringified(sessionMembers, sessionTotals)
    /\ UNCHANGED <<sessionMembers, sessionTotals, recalculateTimeout>>
    /\ AppFrame

\* app.saveSession, from the save button or Ctrl+S
ManualSave ==
    /\ persisted' = stringified(sessionMembers, sessionTotals)
    /\ persisted' # persisted
    /\ UNCHANGED <<sessionMembers, sessionTotals, recalculateTimeout, saveTimeout>>
    /\ AppFrame

NextApp ==
    \/ PushMember
    \/ SpliceMember
    \/ UpdateMemberAdvance
    \/ RecalculateFires
    \/ AutoSaveFires
    \/ ManualSave
SpecApp == InitApp /\ [][NextApp]_vars

\* The steps that clear a timer: in SpecApp these are the steps of
\* RecalculateFires and of AutoSaveFires, and they can be taken exactly
\* when those can
RecalculationDue == recalculateTimeout /\ recalculateTimeout' = FALSE
AutoSaveDue == saveTimeout /\ ~recalculateTimeout /\ saveTimeout' = FALSE

\* a timer that is set fires; the user owes no further action
SpecAppFair ==
    SpecApp /\ WF_recalculateTimeout(RecalculationDue) /\ WF_saveTimeout(AutoSaveDue)

\* C29: the totals of the persisted session are the totals calculateSession
\* computes for the members and advances persisted with them.
C29_PersistedTotalsAreCurrent ==
    persisted.saved =>
        TotalsShown(persisted.totals) = TotalsShown(recalculated(persisted.members))

\* the session was saved while the recalculation of an advance was pending
C29_SavedBeforeRecalculation ==
    /\ persisted.saved
    /\ recalculateTimeout
    /\ persisted.members = sessionMembers
    /\ persisted.totals.totalAdvance # recalculated(persisted.members).totalAdvance

\* the store holds the members of the current session as they are; a
\* session never saved has no member to persist
Persisted ==
    IF persisted.saved THEN persisted.members = sessionMembers
    ELSE sessionMembers = <<>>

\* from some point on the user does nothing: only timers fire
UserStops == <>[][RecalculationDue \/ AutoSaveDue]_vars

\* C22: every modification of the current session is eventually persisted
\* without any further user action: once the user stops, the store comes to
\* hold the members of the current session and keeps holding them.
C22_ModificationsPersisted == UserStops => <>[]Persisted

\* C22 but for removals: once the user stops, what is not persisted is the
\* removal of members.
C22_PersistedButForRemovals ==
    UserStops => <>[](Persisted \/ Len(persisted.members) > Len(sessionMembers))

\* a member was removed after the last save and no timer is set
C22_RemovedAndNoTimer ==
    /\ persisted.saved
    /\ Len(persisted.members) > Len(sessionMembers)
    /\ ~saveTimeout
    /\ ~recalculateTimeout
====
